---- MODULE Spec2Model ----
(***************************************************************************)
(* Tag-Folder-Explorer: the tag tree (TreeRoot, TagNode, FileLeaf) and its *)
(* metadata sidecar files, as a state machine.                             *)
(*                                                                         *)
(* Strings are sequences of one-character strings, so that split, trim,    *)
(* replace and base64 are computed as the code computes them.              *)
(***************************************************************************)
EXTENDS Integers, Sequences, FiniteSets, TLC

(***************************************************************************)
(* Strings                                                                 *)
(***************************************************************************)

\* the printable ASCII characters, code 32 (space) to 126 (~); the double quote,
\* the backslash and the backtick are written by name
Ascii ==
    << " ", "!", "dquote", "#", "$", "%", "&", "'", "(", ")", "*", "+", ",", "-", ".", "/",
       "0", "1", "2", "3", "4", "5", "6", "7", "8", "9", ":", ";", "<", "=", ">", "?",
       "@", "A", "B", "C", "D", "E", "F", "G", "H", "I", "J", "K", "L", "M", "N", "O",
       "P", "Q", "R", "S", "T", "U", "V", "W", "X", "Y", "Z", "[", "backslash", "]", "^", "_",
       "backtick", "a", "b", "c", "d", "e", "f", "g", "h", "i", "j", "k", "l", "m", "n", "o",
       "p", "q", "r", "s", "t", "u", "v", "w", "x", "y", "z", "{", "|", "}", "~" >>

\* a byte that is no printable ASCII character
NonPrintable == "nonprintable"

\* a character outside Latin-1, such as a CJK letter or an emoji
Wide == "wide"

\* the code of a character; a non-printable byte stands for code 128, a
\* character outside Latin-1 for code 256
CharCode(c) ==
    IF c = NonPrintable THEN 128
    ELSE IF c = Wide THEN 256
    ELSE 31 + (CHOOSE i \in 1..Len(Ascii) : Ascii[i] = c)

CodeChar(n) == IF n - 31 \in 1..Len(Ascii) THEN Ascii[n - 31] ELSE NonPrintable

\* the base64 alphabet of btoa / atob
B64Chars ==
    << "A", "B", "C", "D", "E", "F", "G", "H", "I", "J", "K", "L", "M", "N", "O", "P",
       "Q", "R", "S", "T", "U", "V", "W", "X", "Y", "Z", "a", "b", "c", "d", "e", "f",
       "g", "h", "i", "j", "k", "l", "m", "n", "o", "p", "q", "r", "s", "t", "u", "v",
       "w", "x", "y", "z", "0", "1", "2", "3", "4", "5", "6", "7", "8", "9", "+", "/" >>

B64Index(c) == (CHOOSE i \in 1..Len(B64Chars) : B64Chars[i] = c) - 1

IsB64Char(c) == \E i \in 1..Len(B64Chars) : B64Chars[i] = c

\* JavaScript whitespace, as String.prototype.trim and /\s/ see it
IsSpace(c) == c = " "

RECURSIVE TrimLeft(_)
TrimLeft(s) ==
    IF s # <<>> /\ IsSpace(Head(s)) THEN TrimLeft(Tail(s)) ELSE s

RECURSIVE TrimRight(_)
TrimRight(s) ==
    IF s # <<>> /\ IsSpace(s[Len(s)]) THEN TrimRight(SubSeq(s, 1, Len(s) - 1)) ELSE s

\* String.prototype.trim
Trim(s) == TrimRight(TrimLeft(s))

\* String.prototype.split('/') : the segments between slashes, empty ones kept
RECURSIVE SplitSlash(_, _, _)
SplitSlash(s, i, cur) ==
    IF i > Len(s) THEN << cur >>
    ELSE IF s[i] = "/" THEN << cur >> \o SplitSlash(s, i + 1, <<>>)
    ELSE SplitSlash(s, i + 1, Append(cur, s[i]))

Split(s) == SplitSlash(s, 1, <<>>)

\* Array.prototype.filter(segment => segment.length > 0)
NonEmptySegments(segs) == SelectSeq(segs, LAMBDA x : Len(x) > 0)

\* tagpath.split('/').filter(segment => segment.length > 0)
TagSegments(tagpath) == NonEmptySegments(Split(tagpath))

\* String.prototype.replace(/\//g, '_')
ReplaceSlashes(s) == [i \in 1..Len(s) |-> IF s[i] = "/" THEN "_" ELSE s[i]]

\* String.prototype.lastIndexOf('_'), 1-based; 0 when there is none
LastIndexOfUnderscore(s) ==
    IF \E i \in 1..Len(s) : s[i] = "_"
    THEN CHOOSE i \in 1..Len(s) : s[i] = "_" /\ \A j \in (i + 1)..Len(s) : s[j] # "_"
    ELSE 0

\* String.prototype.endsWith
EndsWith(s, suffix) ==
    /\ Len(s) >= Len(suffix)
    /\ SubSeq(s, Len(s) - Len(suffix) + 1, Len(s)) = suffix

DotMd == << ".", "m", "d" >>

\* the byte at position i of s, 0 past its end
ByteAt(s, i) == IF i <= Len(s) THEN CharCode(s[i]) ELSE 0

\* the four characters btoa makes of a group of len bytes whose 24 bits are n
B64Quad(n, len) ==
    << B64Chars[(n \div 262144) + 1],
       B64Chars[((n \div 4096) % 64) + 1],
       IF len >= 2 THEN B64Chars[((n \div 64) % 64) + 1] ELSE "=",
       IF len >= 3 THEN B64Chars[(n % 64) + 1] ELSE "=" >>

\* atob(t), and btoa(s), when they throw InvalidCharacterError
Thrown == << "thrown" >>

\* btoa: three bytes become four characters, the tail is padded with '='; it
\* throws on a character outside Latin-1
RECURSIVE Btoa(_)
Btoa(s) ==
    IF \E i \in 1..Len(s) : CharCode(s[i]) > 255 THEN Thrown
    ELSE IF Len(s) = 0 THEN <<>>
    ELSE B64Quad(ByteAt(s, 1) * 65536 + ByteAt(s, 2) * 256 + ByteAt(s, 3), Len(s))
            \o Btoa(SubSeq(s, 4, Len(s)))

\* a base64 text without its padding, the length being a multiple of four
Unpadded(u) ==
    IF Len(u) % 4 = 0 /\ Len(u) >= 2 /\ u[Len(u)] = "=" /\ u[Len(u) - 1] = "="
    THEN SubSeq(u, 1, Len(u) - 2)
    ELSE IF Len(u) % 4 = 0 /\ Len(u) >= 1 /\ u[Len(u)] = "="
    THEN SubSeq(u, 1, Len(u) - 1)
    ELSE u

\* the data characters of a base64 text: whitespace dropped, padding removed
B64Data(t) == Unpadded(SelectSeq(t, LAMBDA c : ~IsSpace(c)))

\* atob throws InvalidCharacterError on data of these shapes
BadB64Data(d) ==
    \/ Len(d) % 4 = 1
    \/ \E i \in 1..Len(d) : ~IsB64Char(d[i])

\* the value of the data character at position i, 0 past the end
SextetAt(d, i) == IF i <= Len(d) THEN B64Index(d[i]) ELSE 0

\* the bytes atob makes of a group of len data characters whose 24 bits are n
B64Bytes(n, len) ==
    << CodeChar(n \div 65536) >>
        \o (IF len >= 3 THEN << CodeChar((n \div 256) % 256) >> ELSE <<>>)
        \o (IF len >= 4 THEN << CodeChar(n % 256) >> ELSE <<>>)

RECURSIVE AtobData(_)
AtobData(d) ==
    IF Len(d) < 2 THEN <<>>
    ELSE B64Bytes(SextetAt(d, 1) * 262144 + SextetAt(d, 2) * 4096
                    + SextetAt(d, 3) * 64 + SextetAt(d, 4), Len(d))
            \o AtobData(SubSeq(d, 5, Len(d)))

\* atob(t): the decoded text, or Thrown when it throws
AtobOf(d) == IF BadB64Data(d) THEN Thrown ELSE AtobData(d)

Atob(t) == AtobOf(B64Data(t))

\* String.prototype.split(sep) for a one-character separator
RECURSIVE SplitOnFrom(_, _, _, _)
SplitOnFrom(s, sep, i, cur) ==
    IF i > Len(s) THEN << cur >>
    ELSE IF s[i] = sep THEN << cur >> \o SplitOnFrom(s, sep, i + 1, <<>>)
    ELSE SplitOnFrom(s, sep, i + 1, Append(cur, s[i]))

\* the line feed character of the settings text
Newline == "newline"

Range(f) == { f[i] : i \in DOMAIN f }

(***************************************************************************)
(* Values                                                                  *)
(***************************************************************************)

\* null
NULL == 0

\* the root-proxy object constructRootNode builds
ROOT_PROXY == -1

\* a member of Object.prototype (a function such as Object): what indexing the
\* children dictionary, created as {}, yields for a name it inherits; it is
\* truthy and has none of the methods of a TagNode
OBJECT_MEMBER == -2

\* the call threw (a TypeError on a value that is no TagNode)
THROWN == -3

Constructor == << "c", "o", "n", "s", "t", "r", "u", "c", "t", "o", "r" >>

\* names every object literal inherits from Object.prototype
ObjectPrototypeKeys == { Constructor }

\* the empty dictionary / the empty string / the empty Set
Empty == <<>>

VARIABLES
    rootTags,           \* TreeRoot.rootTags: node ids in insertion order
    untaggedFiles,      \* TreeRoot.untaggedFiles: FileLeaf records in insertion order
    excludedFolders,    \* TreeRoot.excludedFolders
    nodes,              \* the TagNode objects reachable from rootTags, by id
    meta,               \* the files under .TagNodeMeta: relative path -> content
    vault,              \* the markdown files of the vault, in the order of the walk
    folderPathsToSkip,  \* settings.folderPathsToSkip
    last,               \* the last call: its name, arguments and result
    ops,                \* the number of calls made since construction
    treeVersion,        \* the version counter of the tree
    plugin,             \* TagFolderPlugin: whether treeRoot is set, and activeViews
    views               \* the TagExplorerView objects, by id

vars == << rootTags, untaggedFiles, excludedFolders, nodes, meta, vault,
           folderPathsToSkip, last, ops, treeVersion, plugin, views >>

\* the tree and the sidecar directory, as one value the operations transform
Tree == [ rootTags |-> rootTags, untaggedFiles |-> untaggedFiles,
          nodes |-> nodes, meta |-> meta ]

(***************************************************************************)
(* FileLeaf                                                                *)
(***************************************************************************)

\* app.vault.getAbstractFileByPath(path) instanceof TFile
IsTFile(v, path) == \E i \in 1..Len(v) : v[i].path = path

\* new FileLeaf(name, path, tagpath, app), where the constructor does not throw
FileLeaf(name, path, tagpath) == [ name |-> name, path |-> path, tagpath |-> tagpath ]

\* tagCache.tag.startsWith('#') ? tagCache.tag.slice(1) : tagCache.tag
TagName(tag) == IF tag # <<>> /\ Head(tag) = "#" THEN Tail(tag) ELSE tag

\* FileLeaf.retrieveAllPaths: the tags of the file's cache, '#' removed
RetrieveAllPaths(tfile) == [ i \in 1..Len(tfile.tags) |-> TagName(tfile.tags[i]) ]

(***************************************************************************)
(* TagNode                                                                 *)
(***************************************************************************)

\* the rest of getMetadataFilePath, btoa(this.path) being known
FilenameOf(path, base64Path) ==
    IF base64Path = Thrown THEN Thrown
    ELSE ReplaceSlashes(path) \o << "_" >> \o base64Path \o DotMd

\* TagNode.getMetadataFilePath, relative to the .TagNodeMeta folder; Thrown
\* when btoa throws
GetMetadataFilePath(path) == FilenameOf(path, Btoa(path))

\* new Date().toISOString(): the reading of the clock
IsoNow == << "2", "0", "2", "6", "-", "0", "1", "-", "0", "1", "T", "0", "0", ":", "0", "0", ":", "0", "0", ".", "0", "0", "0", "Z" >>

\* one line of the legend createNewMeta writes; the coloured circle is a
\* character outside Latin-1
LegendLine(label) == << " ", " ", "-", " " >> \o << Wide >> \o << ",", " ", "l", "a", "b", "e", "l", " " >> \o label

\* the text createNewMeta writes, as its lines: the frontmatter between two
\* lines of dashes, and the two line ends after it
InitialContent(name, path) ==
    << << "-", "-", "-" >>,
       << "p", "a", "t", "h", ":", " ", "dquote" >> \o path \o << "dquote" >>,
       << "n", "a", "m", "e", ":", " ", "dquote" >> \o name \o << "dquote" >>,
       << "c", "r", "e", "a", "t", "e", "d", ":", " ", "dquote" >> \o IsoNow \o << "dquote" >>,
       << "m", "o", "d", "i", "f", "i", "e", "d", ":", " ", "dquote" >> \o IsoNow \o << "dquote" >>,
       << "d", "e", "s", "c", "r", "i", "p", "t", "i", "o", "n", ":", " ", "|", "-" >>,
       << " ", " ", "T", "a", "g", "N", "o", "d", "e", " ", "M", "e", "t", "a", "d", "a", "t", "a", " ", "f", "o", "r", " " >> \o name,
       << " ", " ", "T", "h", "i", "s", " ", "f", "i", "l", "e", " ", "c", "o", "n", "t", "a", "i", "n", "s", " ", "m", "e", "t", "a", "d", "a", "t", "a", " ", "f", "o", "r", " ", "t", "h", "e", " ", "T", "a", "g", "N", "o", "d", "e", " ", "a", "t", " ", "p", "a", "t", "h", ":", " ", "backtick" >> \o path \o << "backtick" >>,
       << "l", "e", "g", "e", "n", "d", ":", " ", "|", "-" >>,
       LegendLine(<< "o", "n", "e" >>), LegendLine(<< "t", "w", "o" >>), LegendLine(<< "t", "h", "r", "e", "e" >>),
       LegendLine(<< "f", "o", "u", "r" >>), LegendLine(<< "f", "i", "v", "e" >>), LegendLine(<< "s", "i", "x" >>),
       << "-", "-", "-" >>,
       <<>>,
       <<>> >>

\* fs.writeFileSync(metadataPath, content) unless fs.existsSync(metadataPath);
\* nothing is written when getMetadataFilePath threw
WriteNewFile(m, file, content) ==
    IF file = Thrown \/ file \in DOMAIN m THEN m
    ELSE [ f \in DOMAIN m \cup { file } |-> IF f = file THEN content ELSE m[f] ]

\* TagNode.createNewMeta
CreateNewMeta(m, name, path) ==
    WriteNewFile(m, GetMetadataFilePath(path), InitialContent(name, path))

\* what createNewMeta returns with the folder it leaves: true when it wrote
CreatedMeta(m, name, path) ==
    [ m |-> CreateNewMeta(m, name, path),
      ret |-> IF CreateNewMeta(m, name, path) = m THEN "false" ELSE "true" ]

\* fs.unlinkSync(metadataPath) if fs.existsSync(metadataPath)
Unlink(m, file) == [ f \in DOMAIN m \ { file } |-> m[f] ]

\* TagNode.deleteMeta
DeleteMeta(m, path) == Unlink(m, GetMetadataFilePath(path))

\* what deleteMeta returns with the folder it leaves: false when
\* getMetadataFilePath threw or no file was there
DeletedMeta(m, path) ==
    IF GetMetadataFilePath(path) = Thrown \/ GetMetadataFilePath(path) \notin DOMAIN m
    THEN [ m |-> m, ret |-> "false" ]
    ELSE [ m |-> DeleteMeta(m, path), ret |-> "true" ]

\* fs.existsSync(this.getMetadataFilePath())
MetaExists(m, path) == GetMetadataFilePath(path) \in DOMAIN m

(***************************************************************************)
(* The frontmatter of a sidecar: readMeta and updateMeta                   *)
(***************************************************************************)

\* a value of a record: a text, or a list of texts
TextValue(s) == [ list |-> FALSE, items |-> << s >> ]

ListValue(items) == [ list |-> TRUE, items |-> items ]

\* result[key] = val: the value replaced in place, or the key added at the end
Put(result, key, val) ==
    IF \E i \in 1..Len(result) : result[i].key = key
    THEN [ i \in 1..Len(result) |->
            IF result[i].key = key THEN [ key |-> key, val |-> val ] ELSE result[i] ]
    ELSE Append(result, [ key |-> key, val |-> val ])

\* the keys of a record
Keys(record) == { record[i].key : i \in 1..Len(record) }

\* record[key], the key being there
ValueOf(record, key) == record[CHOOSE i \in 1..Len(record) : record[i].key = key].val

\* \w of a regular expression
IsWordChar(c) ==
    \/ c = "_"
    \/ /\ c \notin { NonPrintable, Wide, Newline }
       /\ CharCode(c) \in (48..57) \cup (65..90) \cup (97..122)

\* /^\s*$/
AllSpace(s) == \A i \in 1..Len(s) : IsSpace(s[i])

\* the length of the key /^(\w[\w-]*):/ finds at the start of the line, 0 when
\* it finds none
KeyLen(line) ==
    IF \E k \in 1..(Len(line) - 1) :
            /\ line[k + 1] = ":" /\ IsWordChar(line[1])
            /\ \A j \in 2..k : IsWordChar(line[j]) \/ line[j] = "-"
    THEN CHOOSE k \in 1..(Len(line) - 1) :
            /\ line[k + 1] = ":" /\ IsWordChar(line[1])
            /\ \A j \in 2..k : IsWordChar(line[j]) \/ line[j] = "-"
    ELSE 0

\* /^\s*-\s+/ : the line of an item of a block list
IsItemLine(line) ==
    /\ Len(TrimLeft(line)) >= 2
    /\ TrimLeft(line)[1] = "-" /\ IsSpace(TrimLeft(line)[2])

\* item.replace(/^"|"$/g, ''), the item being trimmed
Unquoted(item) ==
    IF Len(item) >= 2 /\ item[1] = "dquote" /\ item[Len(item)] = "dquote"
    THEN SubSeq(item, 2, Len(item) - 1)
    ELSE IF item # <<>> /\ item[1] = "dquote" THEN Tail(item)
    ELSE IF item # <<>> /\ item[Len(item)] = "dquote" THEN SubSeq(item, 1, Len(item) - 1)
    ELSE item

\* the item of an item line
ItemOf(line) == Unquoted(Trim(Tail(TrimLeft(line))))

\* /^(\s+).*/ : the line of a block scalar
IsBlockLine(line) == line # <<>> /\ IsSpace(line[1])

\* the line is of the kind: an item line, a block line or an empty line
IsOfKind(line, kind) ==
    IF kind = "item" THEN IsItemLine(line)
    ELSE IF kind = "block" THEN IsBlockLine(line)
    ELSE line = <<>>

\* the first line from i on that is not of the kind
RunEnd(lines, i, kind) ==
    CHOOSE j \in i..(Len(lines) + 1) :
        /\ \A k \in i..(j - 1) : IsOfKind(lines[k], kind)
        /\ j = Len(lines) + 1 \/ ~IsOfKind(lines[j], kind)

\* Array.prototype.join
RECURSIVE Join(_, _)
Join(texts, sep) ==
    IF Len(texts) = 0 THEN <<>>
    ELSE IF Len(texts) = 1 THEN texts[1]
    ELSE texts[1] \o sep \o Join(Tail(texts), sep)

\* the text is q, characters other than q, q
Quoted(t, q) ==
    /\ Len(t) >= 2 /\ t[1] = q /\ t[Len(t)] = q
    /\ \A i \in 2..(Len(t) - 1) : t[i] # q

\* no line of the frontmatter matched
NoMatch == << "nomatch" >>

\* the value /:\s*(?:"([^"]*)"|'([^']*)'|([^#].*))?$/ finds in what follows
\* the colon, t being that text without its leading spaces; NoMatch when the
\* expression does not match
ScalarOfTrimmed(rest, t) ==
    IF Quoted(t, "dquote") \/ Quoted(t, "'") THEN SubSeq(t, 2, Len(t) - 1)
    ELSE IF t[1] # "#" \/ Len(rest) > Len(t) THEN Trim(t)
    ELSE NoMatch

ScalarOf(rest) == ScalarOfTrimmed(rest, TrimLeft(rest))

\* parseFrontmatter of readMeta and of updateMeta: the loop over the lines
RECURSIVE ParseFrom(_, _, _)
RECURSIVE ParseKeyed(_, _, _, _, _)
RECURSIVE ParseScalar(_, _, _, _, _)
ParseFrom(lines, i, result) ==
    IF i > Len(lines) THEN result
    ELSE IF AllSpace(lines[i]) THEN ParseFrom(lines, i + 1, result)
    ELSE ParseKeyed(lines, i, result, KeyLen(lines[i]), RunEnd(lines, i + 1, "item"))

\* the line i, the length of its key and the end of the item lines after it known
ParseKeyed(lines, i, result, keyLen, itemsEnd) ==
    IF keyLen = 0 THEN ParseFrom(lines, i + 1, result)
    ELSE IF AllSpace(SubSeq(lines[i], keyLen + 2, Len(lines[i])))
    THEN ParseFrom(lines, itemsEnd,
            Put(result, SubSeq(lines[i], 1, keyLen),
                ListValue([ k \in 1..(itemsEnd - i - 1) |-> ItemOf(lines[i + k]) ])))
    ELSE IF Trim(SubSeq(lines[i], keyLen + 2, Len(lines[i]))) \in { << "|" >>, << "|", "-" >> }
    THEN ParseFrom(lines, RunEnd(lines, i + 1, "block"),
            Put(result, SubSeq(lines[i], 1, keyLen),
                TextValue(Join([ k \in 1..(RunEnd(lines, i + 1, "block") - i - 1) |->
                                    TrimLeft(lines[i + k]) ], << Newline >>))))
    ELSE ParseScalar(lines, i, result, SubSeq(lines[i], 1, keyLen),
            ScalarOf(SubSeq(lines[i], keyLen + 2, Len(lines[i]))))

\* the single-line scalar of line i: set when the expression matched
ParseScalar(lines, i, result, key, val) ==
    IF val = NoMatch THEN ParseFrom(lines, i + 1, result)
    ELSE ParseFrom(lines, i + 1, Put(result, key, TextValue(val)))

\* parseFrontmatter
ParseFrontmatter(yamlLines) == ParseFrom(yamlLines, 1, <<>>)

\* String.prototype.startsWith
StartsWith(s, prefix) == Len(s) >= Len(prefix) /\ SubSeq(s, 1, Len(prefix)) = prefix

\* the line that ends the match of /^---\n([\s\S]*?)\n---/ : the first line
\* after the second that starts with three dashes; 0 when there is no match
FrontmatterEnd(lines) ==
    IF /\ Len(lines) >= 3 /\ lines[1] = << "-", "-", "-" >>
       /\ \E j \in 3..Len(lines) : StartsWith(lines[j], << "-", "-", "-" >>)
    THEN CHOOSE j \in 3..Len(lines) :
            /\ StartsWith(lines[j], << "-", "-", "-" >>)
            /\ \A k \in 3..(j - 1) : ~StartsWith(lines[k], << "-", "-", "-" >>)
    ELSE 0

\* the record of a sidecar text whose frontmatter ends at the line
ParsedUpTo(lines, end) ==
    IF end = 0 THEN <<>> ELSE ParseFrontmatter(SubSeq(lines, 2, end - 1))

\* the rest of readMeta, the path of the sidecar being known
ReadFile(m, file) ==
    IF file = Thrown \/ file \notin DOMAIN m THEN <<>>
    ELSE ParsedUpTo(m[file], FrontmatterEnd(m[file]))

\* TagNode.readMeta
ReadMeta(m, path) == ReadFile(m, GetMetadataFilePath(path))

\* String.prototype.includes
Includes(s, sub) ==
    \E i \in 0..(Len(s) - Len(sub)) : SubSeq(s, i + 1, i + Len(sub)) = sub

\* Array.from(new Set(items)): the first occurrence of every item, in order
Deduped(items) ==
    [ k \in 1..Cardinality({ i \in 1..Len(items) : \A j \in 1..(i - 1) : items[j] # items[i] }) |->
        items[CHOOSE i \in 1..Len(items) :
                /\ \A j \in 1..(i - 1) : items[j] # items[i]
                /\ Cardinality({ h \in 1..i : \A j \in 1..(h - 1) : items[j] # items[h] }) = k] ]

\* the merge of an incoming value into the existing value of its key
MergedValue(existing, incoming) ==
    IF existing.list THEN ListValue(Deduped(existing.items \o incoming.items))
    ELSE IF incoming.list THEN ListValue(Deduped(existing.items \o incoming.items))
    ELSE IF incoming.items[1] = <<>> \/ Includes(existing.items[1], incoming.items[1])
    THEN existing
    ELSE TextValue(existing.items[1] \o << Newline >> \o incoming.items[1])

\* the body of the merge loop of updateMeta, for one entry of the payload
MergedEntry(existingData, key, incoming) ==
    IF key \notin Keys(existingData) THEN Put(existingData, key, incoming)
    ELSE Put(existingData, key, MergedValue(ValueOf(existingData, key), incoming))

\* the merge loop of updateMeta over Object.entries(payload)
RECURSIVE Merged(_, _, _)
Merged(existingData, payload, i) ==
    IF i > Len(payload) THEN existingData
    ELSE Merged(MergedEntry(existingData, payload[i].key, payload[i].val), payload, i + 1)

\* v.replace(/"/g, '\\"')
RECURSIVE Escaped(_)
Escaped(v) ==
    IF v = <<>> THEN <<>>
    ELSE IF Head(v) = "dquote" THEN << "backslash", "dquote" >> \o Escaped(Tail(v))
    ELSE << Head(v) >> \o Escaped(Tail(v))

\* the place of the k-th line end of the text; 0 before the first line, one
\* past the text after the last
LineEnd(text, k) ==
    IF k = 0 THEN 0
    ELSE IF k > Cardinality({ i \in 1..Len(text) : text[i] = Newline }) THEN Len(text) + 1
    ELSE CHOOSE i \in 1..Len(text) :
            /\ text[i] = Newline
            /\ Cardinality({ j \in 1..i : text[j] = Newline }) = k

\* v.split('\n')
LinesOf(text) ==
    [ k \in 1..(Cardinality({ i \in 1..Len(text) : text[i] = Newline }) + 1) |->
        SubSeq(text, LineEnd(text, k - 1) + 1, LineEnd(text, k) - 1) ]

\* the lines serializeFrontmatter pushes for one entry
SerializedEntry(k, v) ==
    IF v.list
    THEN << k \o << ":" >> >> \o [ j \in 1..Len(v.items) |-> << " ", " ", "-", " " >> \o v.items[j] ]
    ELSE IF Includes(v.items[1], << Newline >>)
    THEN << k \o << ":", " ", "|", "-" >> >>
            \o [ j \in 1..Len(LinesOf(v.items[1])) |-> << " ", " " >> \o LinesOf(v.items[1])[j] ]
    ELSE << k \o << ":", " ", "dquote" >> \o Escaped(v.items[1]) \o << "dquote" >> >>

\* serializeFrontmatter, as the lines it joins
RECURSIVE SerializeFrontmatter(_, _)
SerializeFrontmatter(obj, i) ==
    IF i > Len(obj) THEN <<>>
    ELSE SerializedEntry(obj[i].key, obj[i].val) \o SerializeFrontmatter(obj, i + 1)

\* the lines of the text lines.join('\n'): a pushed line that holds line ends
\* makes several, and the text of no line is one empty line
RECURSIVE LinesOfAll(_, _)
LinesOfAll(lines, i) ==
    IF i > Len(lines) THEN <<>> ELSE LinesOf(lines[i]) \o LinesOfAll(lines, i + 1)

JoinedLines(lines) == IF lines = <<>> THEN << <<>> >> ELSE LinesOfAll(lines, 1)

\* the lines of fileContent.slice(fmMatch[0].length): what follows the three
\* dashes on the closing line, or else what follows the line ends after it
BodyFrom(lines, end, next) ==
    IF end = 0 THEN << <<>> >>
    ELSE IF Len(lines[end]) > 3
    THEN << SubSeq(lines[end], 4, Len(lines[end])) >> \o SubSeq(lines, end + 1, Len(lines))
    ELSE IF next > Len(lines) THEN << <<>> >>
    ELSE SubSeq(lines, next, Len(lines))

Body(lines, end) == BodyFrom(lines, end, RunEnd(lines, end + 1, "empty"))

\* the text updateMeta writes: `---\n${newFmInner}\n---\n\n` + body
NewContent(newFmLines, bodyLines) ==
    << << "-", "-", "-" >> >> \o JoinedLines(newFmLines) \o << << "-", "-", "-" >>, <<>> >> \o bodyLines

\* the rest of updateMeta, the text of the sidecar and the end of its
\* frontmatter being known
UpdatedContent(lines, end, payload) ==
    NewContent(SerializeFrontmatter(Merged(ParsedUpTo(lines, end), payload, 1), 1),
               Body(lines, end))

\* updateMeta writing the sidecar that is missing instead of returning false
UpdateFileCreating(m, file, payload) ==
    IF file = Thrown THEN [ m |-> m, ret |-> "false" ]
    ELSE IF file \notin DOMAIN m
    THEN [ m |-> WriteNewFile(m, file, UpdatedContent(<<>>, 0, payload)), ret |-> "true" ]
    ELSE [ m |-> [ m EXCEPT ![file] = UpdatedContent(m[file], FrontmatterEnd(m[file]), payload) ],
           ret |-> "true" ]

\* the rest of updateMeta, the path of the sidecar being known
UpdateFile(m, file, payload) ==
    IF file = Thrown \/ file \notin DOMAIN m THEN [ m |-> m, ret |-> "false" ]
    ELSE [ m |-> [ m EXCEPT ![file] = UpdatedContent(m[file], FrontmatterEnd(m[file]), payload) ],
           ret |-> "true" ]

\* TagNode.updateMeta
UpdateMeta(m, path, payload) == UpdateFile(m, GetMetadataFilePath(path), payload)

(***************************************************************************)
(* TagNode: the children and the files                                     *)
(***************************************************************************)

\* the identity of the next object allocated
FreshId(ns) == CHOOSE i \in 1..(Cardinality(DOMAIN ns) + 1) : i \notin DOMAIN ns

\* the heap with one more object
Allocate(ns, id, node) == [ i \in DOMAIN ns \cup { id } |-> IF i = id THEN node ELSE ns[i] ]

\* new TagNode(name, path, parent, app): the fields, and the sidecar it creates
NewTagNode(t, id, name, path, parent) ==
    [ t EXCEPT
        !.nodes = Allocate(t.nodes, id,
                    [ name |-> name, path |-> path, parent |-> parent,
                      children |-> Empty, files |-> Empty ]),
        !.meta = CreateNewMeta(t.meta, name, path) ]

\* the dictionary has the name as an own property
HasKey(children, name) == \E i \in 1..Len(children) : children[i].key = name

KeyIndex(children, name) == CHOOSE i \in 1..Len(children) : children[i].key = name

\* this.children[name]: the own property, else what Object.prototype gives
ChildrenLookup(children, name) ==
    IF HasKey(children, name) THEN children[KeyIndex(children, name)].node
    ELSE IF name \in ObjectPrototypeKeys THEN OBJECT_MEMBER
    ELSE NULL

\* TagNode.getChild
GetChild(ns, id, nameOfChild) == ChildrenLookup(ns[id].children, nameOfChild)

\* the position of the first file of that name, 0 when there is none
FileIndex(files, nameOfFile) ==
    IF \E i \in 1..Len(files) : files[i].name = nameOfFile
    THEN CHOOSE i \in 1..Len(files) :
            /\ files[i].name = nameOfFile
            /\ \A j \in 1..(i - 1) : files[j].name # nameOfFile
    ELSE 0

RemoveAt(seq, i) == SubSeq(seq, 1, i - 1) \o SubSeq(seq, i + 1, Len(seq))

\* the result of an operation: the tree it leaves and the value it returns
Result(t, ret) == [ t |-> t, ret |-> ret ]

\* the child path with the path of the parent left out
ChildPathNameOnly(path, childName) == childName

\* this.path === '' ? childName : this.path + '/' + childName
ChildPath(path, childName) ==
    IF path = Empty THEN childName ELSE path \o << "/" >> \o childName

\* the rest of TagNode.addChildNode, once the name is trimmed
AddChildNamed(t, id, childName, child) ==
    IF childName = Empty THEN Result(t, "false")
    ELSE IF GetChild(t.nodes, id, childName) # NULL THEN Result(t, "false")
    ELSE Result(
            [ NewTagNode(t, child, childName, ChildPath(t.nodes[id].path, childName), id)
                EXCEPT !.nodes[id].children = Append(@, [ key |-> childName, node |-> child ]) ],
            "true")

\* TagNode.addChildNode
AddChildNode(t, id, newChildTagName) ==
    AddChildNamed(t, id, Trim(newChildTagName), FreshId(t.nodes))

\* the validation of createNewFile, and the FileLeaf constructor not throwing
FileAccepted(v, files, nameOfFile, pathToFile) ==
    /\ Trim(nameOfFile) # Empty
    /\ Trim(pathToFile) # Empty
    /\ FileIndex(files, nameOfFile) = 0
    /\ IsTFile(v, Trim(pathToFile))

\* TagNode.createNewFile
CreateNewFile(t, v, id, nameOfFile, pathToFile) ==
    IF FileAccepted(v, t.nodes[id].files, nameOfFile, pathToFile)
    THEN Result([ t EXCEPT !.nodes[id].files =
                    Append(@, FileLeaf(Trim(nameOfFile), Trim(pathToFile), t.nodes[id].path)) ],
                "true")
    ELSE Result(t, "false")

\* the rest of TagNode.removeFile, the position of the file being known
RemoveFileAt(t, id, i) ==
    IF i = 0 THEN Result(t, "false")
    ELSE Result([ t EXCEPT !.nodes[id].files = RemoveAt(@, i) ], "true")

\* TagNode.removeFile
RemoveFile(t, id, fileName) == RemoveFileAt(t, id, FileIndex(t.nodes[id].files, fileName))

\* the rest of TagNode.removeChildNode, the child being looked up; on a member
\* of Object.prototype, delete changes nothing and deleteMeta() throws
RemoveChild(t, id, childTagName, childNode) ==
    IF childNode = NULL \/ childNode = OBJECT_MEMBER THEN Result(t, "false")
    ELSE Result(
            [ t EXCEPT
                !.nodes[id].children = RemoveAt(@, KeyIndex(@, childTagName)),
                !.meta = DeleteMeta(@, t.nodes[childNode].path) ],
            "true")

\* TagNode.removeChildNode
RemoveChildNode(t, id, childTagName) ==
    RemoveChild(t, id, childTagName, GetChild(t.nodes, id, childTagName))

\* renameNode with the path rebuilt from the name alone, the parent forgotten
RenameToNameOnly(t, id, name) ==
    IF name = Empty THEN Result(t, "false")
    ELSE Result([ t EXCEPT !.nodes[id].name = name, !.nodes[id].path = name ], "true")

\* the rest of TagNode.renameNode, once the name is trimmed
RenameTo(t, id, name) ==
    IF name = Empty THEN Result(t, "false")
    ELSE Result(
            [ t EXCEPT
                !.nodes[id].name = name,
                !.nodes[id].path =
                    IF t.nodes[id].parent # NULL
                    THEN t.nodes[t.nodes[id].parent].path \o << "/" >> \o name
                    ELSE name ],
            "true")

\* renameNode taking the new name as it is given, blanks included
RenameNodeUntrimmed(t, id, newName) == RenameTo(t, id, newName)

\* TagNode.renameNode
RenameNode(t, id, newName) == RenameTo(t, id, Trim(newName))

\* the rest of TagNode.editPath, the trimmed path and its segments being known
EditPathTo(t, id, path, pathSegments) ==
    IF path = Empty \/ pathSegments[Len(pathSegments)] = Empty THEN Result(t, "false")
    ELSE Result(
            [ t EXCEPT
                !.nodes[id].path = path,
                !.nodes[id].name = pathSegments[Len(pathSegments)] ],
            "true")

\* TagNode.editPath
EditPath(t, id, newPath) == EditPathTo(t, id, Trim(newPath), Split(Trim(newPath)))

(***************************************************************************)
(* The root proxy of TreeRoot.constructRootNode                            *)
(***************************************************************************)

\* the first root tag of that name, else null
FindRootTag(t, name) ==
    IF \E i \in 1..Len(t.rootTags) : t.nodes[t.rootTags[i]].name = name
    THEN t.rootTags[CHOOSE i \in 1..Len(t.rootTags) :
            /\ t.nodes[t.rootTags[i]].name = name
            /\ \A j \in 1..(i - 1) : t.nodes[t.rootTags[j]].name # name]
    ELSE NULL

\* rootTags.delete(tag)
WithoutRootTag(t, id) ==
    [ t EXCEPT !.rootTags = SelectSeq(@, LAMBDA r : r # id) ]

\* new TagNode(name, name, null, app) added to rootTags
NewRootTag(t, id, name) ==
    [ NewTagNode(t, id, name, name, NULL) EXCEPT !.rootTags = Append(@, id) ]

\* the rest of the proxy's addChildNode, once the name is trimmed
RootAddChildNamed(t, childName) ==
    IF childName = Empty THEN Result(t, "false")
    ELSE IF FindRootTag(t, childName) # NULL THEN Result(t, "false")
    ELSE Result(NewRootTag(t, FreshId(t.nodes), childName), "true")

\* rootNode.addChildNode
RootAddChildNode(t, newChildTagName) == RootAddChildNamed(t, Trim(newChildTagName))

\* rootNode.createNewFile
RootCreateNewFile(t, v, nameOfFile, pathToFile) ==
    IF FileAccepted(v, t.untaggedFiles, nameOfFile, pathToFile)
    THEN Result([ t EXCEPT !.untaggedFiles =
                    Append(@, FileLeaf(Trim(nameOfFile), Trim(pathToFile), Empty)) ],
                "true")
    ELSE Result(t, "false")

\* the rest of the proxy's removeChildNode, the tag being looked up
RootRemoveTag(t, tag) ==
    IF tag = NULL THEN Result(t, "false") ELSE Result(WithoutRootTag(t, tag), "true")

\* rootNode.removeChildNode
RootRemoveChildNode(t, childTagName) == RootRemoveTag(t, FindRootTag(t, childTagName))

\* the rest of the proxy's removeFile, the position of the file being known
RootRemoveFileAt(t, i) ==
    IF i = 0 THEN Result(t, "false")
    ELSE Result([ t EXCEPT !.untaggedFiles = RemoveAt(@, i) ], "true")

\* rootNode.removeFile
RootRemoveFile(t, filename) == RootRemoveFileAt(t, FileIndex(t.untaggedFiles, filename))

(***************************************************************************)
(* TreeRoot                                                                *)
(***************************************************************************)

\* the walk of getNode below the root tag: null when a child is missing, a
\* TypeError when a member of Object.prototype is asked for its child
RECURSIVE GetNodeFrom(_, _, _, _)
GetNodeFrom(ns, cur, segs, i) ==
    IF cur = NULL THEN NULL
    ELSE IF i > Len(segs) THEN cur
    ELSE IF cur = OBJECT_MEMBER THEN THROWN
    ELSE GetNodeFrom(ns, GetChild(ns, cur, segs[i]), segs, i + 1)

\* the rest of getNode, the segments of the path being known
GetNodeAt(t, tagSegments) ==
    IF Len(tagSegments) = 0 THEN ROOT_PROXY
    ELSE GetNodeFrom(t.nodes, FindRootTag(t, tagSegments[1]), tagSegments, 2)

\* TreeRoot.getNode
GetNode(t, tagpath) ==
    IF Trim(tagpath) = Empty THEN ROOT_PROXY ELSE GetNodeAt(t, TagSegments(tagpath))

\* the position of the first file of that name and path, 0 when there is none
LeafIndex(files, filename, filepath) ==
    IF \E i \in 1..Len(files) : files[i].name = filename /\ files[i].path = filepath
    THEN CHOOSE i \in 1..Len(files) :
            /\ files[i].name = filename /\ files[i].path = filepath
            /\ \A j \in 1..(i - 1) : ~(files[j].name = filename /\ files[j].path = filepath)
    ELSE 0

\* where a file lives: the holder (a node, the root proxy for the untagged
\* list) and its position there
Found(holder, index) == [ holder |-> holder, index |-> index ]

NotFound == Found(NULL, 0)

\* the rest of getFile, the node of the path being known
GetFileIn(t, tagNode, filename) ==
    IF tagNode = NULL THEN NotFound
    ELSE IF tagNode = THROWN \/ tagNode = OBJECT_MEMBER THEN Found(THROWN, 0)
    ELSE IF tagNode = ROOT_PROXY
    THEN (IF FileIndex(t.untaggedFiles, filename) = 0 THEN NotFound
          ELSE Found(ROOT_PROXY, FileIndex(t.untaggedFiles, filename)))
    ELSE (IF FileIndex(t.nodes[tagNode].files, filename) = 0 THEN NotFound
          ELSE Found(tagNode, FileIndex(t.nodes[tagNode].files, filename)))

\* TreeRoot.getFile
GetFile(t, filename, filepath, tagpath) ==
    IF Trim(tagpath) = Empty
    THEN (IF LeafIndex(t.untaggedFiles, filename, filepath) = 0 THEN NotFound
          ELSE Found(ROOT_PROXY, LeafIndex(t.untaggedFiles, filename, filepath)))
    ELSE GetFileIn(t, GetNode(t, tagpath), filename)

\* the walk of delChildNode from the root tag to the parent of the last segment
RECURSIVE ParentFrom(_, _, _, _)
ParentFrom(ns, cur, segs, i) ==
    IF cur = NULL THEN NULL
    ELSE IF i > Len(segs) - 1 THEN cur
    ELSE IF cur = OBJECT_MEMBER THEN THROWN
    ELSE ParentFrom(ns, GetChild(ns, cur, segs[i]), segs, i + 1)

\* the end of delChildNode: parentNode.removeChildNode(childName)
DelChildOf(t, parentNode, childName) ==
    IF parentNode = NULL THEN Result(t, "null")
    ELSE IF parentNode = THROWN \/ parentNode = OBJECT_MEMBER THEN Result(t, "throws")
    ELSE RemoveChildNode(t, parentNode, childName)

\* delChildNode, the root tag named by the first segment being looked up
DelChildUnder(t, tagSegments, rootTag) ==
    IF rootTag = NULL THEN Result(t, "null")
    ELSE IF Len(tagSegments) = 1 THEN Result(WithoutRootTag(t, rootTag), "true")
    ELSE DelChildOf(t, ParentFrom(t.nodes, rootTag, tagSegments, 2),
                    tagSegments[Len(tagSegments)])

\* the rest of delChildNode, the segments of the path being known
DelChildAt(t, tagSegments) ==
    IF Len(tagSegments) = 0 THEN Result(t, "null")
    ELSE DelChildUnder(t, tagSegments, FindRootTag(t, tagSegments[1]))

\* TreeRoot.delChildNode
DelChildNode(t, tagpath) ==
    IF Trim(tagpath) = Empty THEN Result(t, "null") ELSE DelChildAt(t, TagSegments(tagpath))

\* the end of delChildFile: tagNode.removeFile(filename)
DelFileIn(t, tagNode, filename) ==
    IF tagNode = NULL THEN Result(t, "null")
    ELSE IF tagNode = THROWN \/ tagNode = OBJECT_MEMBER THEN Result(t, "throws")
    ELSE IF tagNode = ROOT_PROXY THEN RootRemoveFile(t, filename)
    ELSE RemoveFile(t, tagNode, filename)

\* the untagged branch of delChildFile, the position of the file being known
DelUntaggedAt(t, i) ==
    IF i = 0 THEN Result(t, "null")
    ELSE Result([ t EXCEPT !.untaggedFiles = RemoveAt(@, i) ], "true")

\* TreeRoot.delChildFile
DelChildFile(t, filename, filepath, tagpath) ==
    IF Trim(tagpath) = Empty
    THEN DelUntaggedAt(t, LeafIndex(t.untaggedFiles, filename, filepath))
    ELSE DelFileIn(t, GetNode(t, tagpath), filename)

\* the paths getAllInstancesOfFile pushes for the files of one node
Matches(files, path, filename, filepath) ==
    [ k \in 1..Len(SelectSeq(files, LAMBDA f : f.name = filename /\ f.path = filepath))
        |-> path ]

\* searchInNode of getAllInstancesOfFile: the node, then its children in order
RECURSIVE SearchInNode(_, _, _, _)
RECURSIVE SearchInChildren(_, _, _, _, _)
SearchInNode(ns, id, filename, filepath) ==
    Matches(ns[id].files, ns[id].path, filename, filepath)
        \o SearchInChildren(ns, ns[id].children, 1, filename, filepath)

SearchInChildren(ns, children, k, filename, filepath) ==
    IF k > Len(children) THEN <<>>
    ELSE SearchInNode(ns, children[k].node, filename, filepath)
            \o SearchInChildren(ns, children, k + 1, filename, filepath)

RECURSIVE SearchInRootTags(_, _, _, _)
SearchInRootTags(t, k, filename, filepath) ==
    IF k > Len(t.rootTags) THEN <<>>
    ELSE SearchInNode(t.nodes, t.rootTags[k], filename, filepath)
            \o SearchInRootTags(t, k + 1, filename, filepath)

\* TreeRoot.getAllInstancesOfFile
GetAllInstancesOfFile(t, filename, filepath) ==
    (IF LeafIndex(t.untaggedFiles, filename, filepath) # 0 THEN << Empty >> ELSE <<>>)
        \o SearchInRootTags(t, 1, filename, filepath)

\* the outcome of a walk that creates what is missing: the tree, and the node
\* the walk ended on
Walked(t, cur) == [ t |-> t, cur |-> cur ]

\* the loop that addFileToTagPath and createTagNodeHierarchy share
RECURSIVE WalkOrCreate(_, _, _, _)
RECURSIVE WalkRoot(_, _, _, _)
RECURSIVE WalkChild(_, _, _, _, _)
RECURSIVE WalkAdded(_, _, _, _)
WalkOrCreate(t, segs, i, cur) ==
    IF i > Len(segs) THEN Walked(t, cur)
    ELSE IF i = 1 THEN WalkRoot(t, segs, FindRootTag(t, segs[1]), FreshId(t.nodes))
    ELSE IF cur = NULL THEN Walked(t, NULL)
    ELSE IF cur = OBJECT_MEMBER THEN Walked(t, THROWN)
    ELSE WalkChild(t, segs, i, cur, GetChild(t.nodes, cur, segs[i]))

\* the first segment: the root tag of that name, created when there is none
WalkRoot(t, segs, rootTag, id) ==
    IF rootTag # NULL THEN WalkOrCreate(t, segs, 2, rootTag)
    ELSE WalkOrCreate(NewRootTag(t, id, segs[1]), segs, 2, id)

\* a later segment: the child of that name, added when getChild finds none
WalkChild(t, segs, i, cur, childNode) ==
    IF childNode # NULL THEN WalkOrCreate(t, segs, i + 1, childNode)
    ELSE WalkAdded(AddChildNode(t, cur, segs[i]).t, segs, i, cur)

\* after addChildNode: childNode = currentNode.getChild(segmentName)
WalkAdded(t, segs, i, cur) ==
    WalkOrCreate(t, segs, i + 1, GetChild(t.nodes, cur, segs[i]))

\* the end of addFileToTagPath: currentNode.createNewFile(name, path)
AddFileAtEnd(walked, v, fileLeaf) ==
    IF walked.cur = THROWN \/ walked.cur = OBJECT_MEMBER
    THEN [ t |-> walked.t, threw |-> TRUE ]
    ELSE IF walked.cur = NULL
    THEN [ t |-> walked.t, threw |-> FALSE ]
    ELSE [ t |-> CreateNewFile(walked.t, v, walked.cur, fileLeaf.name, fileLeaf.path).t,
           threw |-> FALSE ]

\* TreeRoot.addFileToTagPath
AddFileToTagPath(t, v, fileLeaf, tagPath) ==
    AddFileAtEnd(WalkOrCreate(t, TagSegments(tagPath), 1, NULL), v, fileLeaf)

\* the loop of processFile over the tag paths; an exception ends it
RECURSIVE AddFileToTagPaths(_, _, _, _, _)
RECURSIVE AfterTagPath(_, _, _, _, _)
AddFileToTagPaths(t, v, fileLeaf, tagPaths, i) ==
    IF i > Len(tagPaths) THEN t
    ELSE AfterTagPath(AddFileToTagPath(t, v, fileLeaf, tagPaths[i]), v, fileLeaf, tagPaths, i)

AfterTagPath(added, v, fileLeaf, tagPaths, i) ==
    IF added.threw THEN added.t
    ELSE AddFileToTagPaths(added.t, v, fileLeaf, tagPaths, i + 1)

\* the rest of processFile, the leaf and its tag paths being known
ProcessLeaf(t, v, fileLeaf, tagPaths) ==
    IF Len(tagPaths) = 0
    THEN [ t EXCEPT !.untaggedFiles = Append(@, fileLeaf) ]
    ELSE AddFileToTagPaths(t, v, fileLeaf, tagPaths, 1)

\* TreeRoot.processFile
ProcessFile(t, v, file) ==
    ProcessLeaf(t, v, FileLeaf(file.basename, file.path, Empty), RetrieveAllPaths(file))

\* isExcludedFolder taking every path that starts with an excluded path
IsExcludedFolderByPrefix(excluded, folderPath) ==
    \E e \in excluded : StartsWith(folderPath, e)

\* TreeRoot.isExcludedFolder
IsExcludedFolder(excluded, folderPath) == folderPath \in excluded

\* processVaultFolder reaches the file: none of its folders is excluded
IsVisited(excluded, file) ==
    \A k \in 1..Len(file.folders) : ~IsExcludedFolder(excluded, file.folders[k])

\* TreeRoot.processVaultFolder, over the files of the vault in the order of the walk
RECURSIVE ProcessVaultFolder(_, _, _, _)
ProcessVaultFolder(t, v, excluded, i) ==
    IF i > Len(v) THEN t
    ELSE IF ~IsVisited(excluded, v[i]) THEN ProcessVaultFolder(t, v, excluded, i + 1)
    ELSE ProcessVaultFolder(ProcessFile(t, v, v[i]), v, excluded, i + 1)

\* filename.replace(/\.md$/, '')
WithoutExtension(filename) ==
    IF EndsWith(filename, DotMd) THEN SubSeq(filename, 1, Len(filename) - 3) ELSE filename

\* the rest of extractTagPathFromFilename: '' when atob throws
DecodedPath(decoded) == IF decoded = Thrown THEN Empty ELSE decoded

\* extractTagPathFromFilename, the name and the place of its last underscore known
ExtractAfter(name, lastUnderscoreIndex) ==
    IF lastUnderscoreIndex = 0 \/ lastUnderscoreIndex = Len(name) THEN Empty
    ELSE DecodedPath(Atob(SubSeq(name, lastUnderscoreIndex + 1, Len(name))))

ExtractFromName(name) == ExtractAfter(name, LastIndexOfUnderscore(name))

\* TreeRoot.extractTagPathFromFilename
ExtractTagPathFromFilename(filename) == ExtractFromName(WithoutExtension(filename))

\* TreeRoot.createTagNodeHierarchy
CreateTagNodeHierarchy(t, tagPath) == WalkOrCreate(t, TagSegments(tagPath), 1, NULL)

\* fs.readdirSync(metaFolderPath): the names directly under the folder; a
\* sidecar whose name holds a slash lies in a subfolder
FirstComponent(file) == Split(file)[1]

Readdir(m) == { FirstComponent(f) : f \in DOMAIN m }

\* the loop of populateEmptyTagFoldersFromMetadata over the listing; an
\* exception of getNode or of createTagNodeHierarchy ends it
RECURSIVE PopulateFrom(_, _, _)
RECURSIVE PopulateTagPath(_, _, _, _)
RECURSIVE PopulateMissing(_, _, _, _, _)
RECURSIVE PopulateCreated(_, _, _)
PopulateFrom(t, metadataFiles, i) ==
    IF i > Len(metadataFiles) THEN t
    ELSE IF ~EndsWith(metadataFiles[i], DotMd) THEN PopulateFrom(t, metadataFiles, i + 1)
    ELSE PopulateTagPath(t, metadataFiles, i, ExtractTagPathFromFilename(metadataFiles[i]))

PopulateTagPath(t, metadataFiles, i, tagPath) ==
    IF Trim(tagPath) = Empty THEN PopulateFrom(t, metadataFiles, i + 1)
    ELSE PopulateMissing(t, metadataFiles, i, tagPath, GetNode(t, tagPath))

PopulateMissing(t, metadataFiles, i, tagPath, existingNode) ==
    IF existingNode = THROWN THEN t
    ELSE IF existingNode # NULL THEN PopulateFrom(t, metadataFiles, i + 1)
    ELSE PopulateCreated(CreateTagNodeHierarchy(t, tagPath), metadataFiles, i)

PopulateCreated(created, metadataFiles, i) ==
    IF created.cur = THROWN THEN created.t
    ELSE PopulateFrom(created.t, metadataFiles, i + 1)

\* TreeRoot.populateEmptyTagFoldersFromMetadata, for one order of the listing
PopulateEmptyTagFoldersFromMetadata(t, metadataFiles) == PopulateFrom(t, metadataFiles, 1)

\* new Set(folderPathsToSkip.split("\n").filter(line => line.length > 0))
ExcludedFoldersOf(text) == Range(NonEmptySegments(SplitOnFrom(text, Newline, 1, <<>>)))

\* rootTags.clear(); untaggedFiles.clear(): the nodes of the old tree are garbage
Cleared(t) == [ t EXCEPT !.rootTags = Empty, !.untaggedFiles = Empty, !.nodes = Empty ]

\* recomputeTree up to processVaultFolder
ScanVault(t, v, text) == ProcessVaultFolder(Cleared(t), v, ExcludedFoldersOf(text), 1)

\* every order of a set of names
RECURSIVE Listings(_)
Listings(S) ==
    IF S = {} THEN { <<>> }
    ELSE UNION { { << x >> \o l : l \in Listings(S \ { x }) } : x \in S }

\* the trees populateEmptyTagFoldersFromMetadata can leave: readdirSync
\* promises no order
Populated(scanned, listings) ==
    { PopulateEmptyTagFoldersFromMetadata(scanned, l) : l \in listings }

\* the listings of the sidecar folder of a scanned tree
ListingsOf(scanned) == Listings(Readdir(scanned.meta))

PopulateScanned(scanned) == Populated(scanned, ListingsOf(scanned))

\* TreeRoot.recomputeTree: the trees it can leave
RecomputeTree(t, v, text) == PopulateScanned(ScanVault(t, v, text))

\* the sum of the totalFileCount of the serialized children
RECURSIVE ChildFileCount(_, _)
ChildFileCount(serializedChildren, k) ==
    IF k > Len(serializedChildren) THEN 0
    ELSE serializedChildren[k].totalFileCount + ChildFileCount(serializedChildren, k + 1)

\* serializeNode with the files of the children left out of the count
SerializedDirectCount(node, serializedChildren) ==
    [ name |-> node.name,
      path |-> node.path,
      children |-> serializedChildren,
      files |-> [ k \in 1..Len(node.files) |->
                    [ name |-> node.files[k].name, path |-> node.files[k].path,
                      tagpath |-> node.files[k].tagpath ] ],
      totalFileCount |-> Len(node.files) ]

\* what serializeNode returns, its children being serialized
Serialized(node, serializedChildren) ==
    [ name |-> node.name,
      path |-> node.path,
      children |-> serializedChildren,
      files |-> [ k \in 1..Len(node.files) |->
                    [ name |-> node.files[k].name, path |-> node.files[k].path,
                      tagpath |-> node.files[k].tagpath ] ],
      totalFileCount |-> Len(node.files) + ChildFileCount(serializedChildren, 1) ]

\* serializeNode of TreeRoot.serializeTree
RECURSIVE SerializeNode(_, _)
SerializeNode(ns, id) ==
    Serialized(ns[id],
        [ k \in 1..Len(ns[id].children) |-> SerializeNode(ns, ns[id].children[k].node) ])

\* TreeRoot.serializeTree
SerializeTree(t) ==
    [ rootTags |-> [ k \in 1..Len(t.rootTags) |-> SerializeNode(t.nodes, t.rootTags[k]) ],
      untaggedFiles |-> [ k \in 1..Len(t.untaggedFiles) |->
                    [ name |-> t.untaggedFiles[k].name, path |-> t.untaggedFiles[k].path,
                      tagpath |-> t.untaggedFiles[k].tagpath ] ] ]

\* getSortedTree putting the top-level nodes in another order before it
\* serializes them
GetSortedTreeInPlace(t) ==
    Result([ t EXCEPT !.rootTags = [ k \in 1..Len(@) |-> @[Len(@) + 1 - k] ] ],
           << SerializeTree([ t EXCEPT !.rootTags = [ k \in 1..Len(@) |-> @[Len(@) + 1 - k] ] ]) >>)

\* TreeRoot.getSortedTree: the tree it leaves and the value it returns
GetSortedTree(t) == Result(t, << SerializeTree(t) >>)

\* the nodes of a subtree: the node and the descendants its children lead to
RECURSIVE Subtree(_, _)
Subtree(ns, id) ==
    { id } \cup UNION { Subtree(ns, ns[id].children[k].node) : k \in 1..Len(ns[id].children) }

\* the objects the tree still refers to
Reachable(t) == UNION { Subtree(t.nodes, t.rootTags[k]) : k \in 1..Len(t.rootTags) }

\* the heap after garbage collection
Live(t, reachable) == [ t EXCEPT !.nodes = [ i \in reachable |-> t.nodes[i] ] ]

Collected(t) == Live(t, Reachable(t))

(***************************************************************************)
(* The vault, the settings and the arguments of the calls                  *)
(***************************************************************************)

\* the most calls made after construction
MaxOps == 2

\* the most sidecar files a recompute lists
MaxSidecars == 5

\* a markdown file of the vault: its folders from the root down, and the tags
\* of its metadata cache
TFile(basename, path, folders, tags) ==
    [ basename |-> basename, path |-> path, folders |-> folders, tags |-> tags ]

\* the path of the vault's root folder
VaultRoot == << "/" >>

FolderD == << "d" >>

A_md == << "A", ".", "m", "d" >>

B_md == << "B", ".", "m", "d" >>

C_md == << "C", ".", "m", "d" >>

D_A_md == << "d", "/", "A", ".", "m", "d" >>

FileA(tags) == TFile(<< "A" >>, A_md, << VaultRoot >>, tags)

FileB(tags) == TFile(<< "B" >>, B_md, << VaultRoot >>, tags)

FileC(tags) == TFile(<< "C" >>, C_md, << VaultRoot >>, tags)

\* a second document named A, in the folder d
FileDA(tags) == TFile(<< "A" >>, D_A_md, << VaultRoot, FolderD >>, tags)

\* the folder e of the folder d
FolderDE == << "d", "/", "e" >>

\* a folder next to d whose path starts with d
FolderD2 == << "d", "2" >>

D_E_E_md == << "d", "/", "e", "/", "E", ".", "m", "d" >>

D2_F_md == << "d", "2", "/", "F", ".", "m", "d" >>

FileDE(tags) == TFile(<< "E" >>, D_E_E_md, << VaultRoot, FolderD, FolderDE >>, tags)

FileD2(tags) == TFile(<< "F" >>, D2_F_md, << VaultRoot, FolderD2 >>, tags)

HashA == << "#", "a" >>

HashAB == << "#", "a", "/", "b" >>

HashC == << "#", "c" >>

HashACtor == << "#", "a", "/" >> \o Constructor

HashSlash == << "#", "/" >>

Fruit == << "f", "r", "u", "i", "t" >>

HashFruitApple == << "#" >> \o Fruit \o << "/", "a", "p", "p", "l", "e" >>

HashFruitOrange == << "#" >> \o Fruit \o << "/", "o", "r", "a", "n", "g", "e" >>

\* the vault the calls of the interface are made on
ApiVault == << FileA(<< HashAB, HashC >>), FileB(<< HashA, HashAB >>), FileDA(<<>>) >>

\* the example vault: A:[fruit/apple], B:[fruit/orange], C:[]
FruitVault == << FileA(<< HashFruitApple >>), FileB(<< HashFruitOrange >>), FileC(<<>>) >>

\* the tags a document of a scanned vault carries
TagLists ==
    { <<>>, << HashA >>, << HashAB >>, << HashAB, HashC >>, << HashACtor >>, << HashSlash >> }

\* vaults with documents in d, in its folder e and in the folder d2 beside it
ExclusionVaults ==
    { << FileA(<<>>), FileDA(<< HashA >>), FileDE(te), FileD2(t2) >> :
        te \in { <<>>, << HashC >> }, t2 \in { <<>>, << HashAB >> } }

\* the vaults the scan is checked on
ScanVaults ==
    { << FileA(ta), FileB(tb), FileDA(td) >> : ta \in TagLists, tb \in TagLists, td \in TagLists }
        \cup { FruitVault } \cup ExclusionVaults

\* settings.folderPathsToSkip: nothing, or the folder d followed by an empty line
SkipSettings == { Empty, << "d", Newline >> }

\* names given to addChildNode and renameNode
NameInputs == { << "a" >>, << " ", "b" >>, << " " >>, Constructor \o << "/", "x" >> }

\* names given to removeChildNode
ChildNameInputs == { << "b" >>, << "c" >>, Constructor }

\* paths given to delChildNode and delChildFile
PathInputs ==
    { << "a" >>, << "a", "/", "b" >>, << "c" >>, << "/" >>, << "a", "/", "x" >> }

\* paths given to TagNode.editPath
NewPathInputs == { << "c" >>, << "a", "/" >> }

\* the paths delChildNode is called with: those, and one whose middle segment
\* names no node
DelPathInputs == PathInputs \cup { << "a", "/", "x", "/", "b" >> }

\* names and paths given to createNewFile
FileNameInputs == { << "A" >>, << " ", "B" >>, << " " >> }

FilePathInputs == { B_md, << "x" >>, Empty }

\* names given to removeFile
FileNames == { << "A" >>, << "B" >> }

\* the documents delChildFile is asked to remove
FileInputs == { [ name |-> << "A" >>, path |-> D_A_md ], [ name |-> << "B" >>, path |-> B_md ] }

\* values given to the setters of a FileLeaf
EditInputs == { << "B" >> }

\* the sidecars of the nodes of an earlier session, given by name and path
RECURSIVE SidecarsOf(_, _)
SidecarsOf(created, i) ==
    IF i > Len(created) THEN Empty
    ELSE CreateNewMeta(SidecarsOf(created, i + 1), created[i].name, created[i].path)

\* the .TagNodeMeta folder at construction: none; the sidecar of a tag folder c
\* that was left empty; the sidecars of a, of c and of the child that
\* addChildNode("constructor/x") gave to a
SidecarFolders ==
    { Empty,
      SidecarsOf(<< [ name |-> << "c" >>, path |-> << "c" >> ] >>, 1),
      SidecarsOf(<< [ name |-> << "a" >>, path |-> << "a" >> ],
                    [ name |-> << "c" >>, path |-> << "c" >> ],
                    [ name |-> Constructor \o << "/", "x" >>,
                      path |-> << "a", "/" >> \o Constructor \o << "/", "x" >> ] >>, 1) }

\* the longest label path whose sidecar name is computed on its own
MaxPathLen == 4

\* the characters of those label paths: a letter, the underscore, a character
\* whose base64 text can hold a slash, a character outside Latin-1, the slash
PathChars == { "a", "_", "?", Wide, "/" }

\* the texts of exactly n of these characters
RECURSIVE TextsOfLen(_)
TextsOfLen(n) ==
    IF n = 0 THEN { <<>> }
    ELSE { Append(t, c) : t \in TextsOfLen(n - 1), c \in PathChars }

\* the valid label paths: slash-joined, non-empty segments of printable characters
LabelPathInputs ==
    { P \in UNION { TextsOfLen(n) : n \in 1..MaxPathLen } :
        \A k \in DOMAIN Split(P) : Split(P)[k] # Empty }

\* the names of the tag folders whose metadata is read and updated: a plain
\* one, one that the text to append occurs in, one with a double quote
MetaNames == { << "a" >>, << "x" >>, << "q", "dquote" >> }

\* the .TagNodeMeta folder with the sidecar, as createNewMeta wrote it, of
\* one top-level tag folder
MetaFolders ==
    { SidecarsOf(<< [ name |-> n, path |-> n ] >>, 1) : n \in MetaNames }

\* a payload of one entry
Entry(key, val) == << [ key |-> key, val |-> val ] >>

DescriptionKey == << "d", "e", "s", "c", "r", "i", "p", "t", "i", "o", "n" >>

\* the payloads given to updateMeta: records of texts and of lists of texts
PayloadInputs ==
    { Entry(DescriptionKey, TextValue(<< "x" >>)),
      Entry(<< "t", "a", "g", "s" >>, ListValue(<< << "p" >>, << "q" >> >>)),
      Entry(<< "t", "a", "g", "s" >>, ListValue(<< << "q" >>, << "r" >>, << "q" >> >>)),
      Entry(<< "t", "a", "g", "s" >>, TextValue(<< "p" >>)),
      Entry(<< "n", "a", "m", "e" >>, ListValue(<< << "z" >> >>)),
      Entry(DescriptionKey, ListValue(<< << "z" >> >>)),
      Entry(<< "n", "o", "t", "e" >>, TextValue(<< "s", "dquote", "h" >>)),
      Entry(<< "n", "o", "t", "e" >>, TextValue(<< "l" >> \o << Newline >> \o << "m" >>)),
      Entry(<< "t", "a", "g", "s" >>, ListValue(<< << " ", "p" >> >>)),
      Entry(<< "n", "o", "t", "e" >>, TextValue(<<>>)) \o Entry(DescriptionKey, TextValue(<< "T", "a", "g", "N", "o", "d", "e" >>)),
      Entry(<< "m", "y", " ", "k", "e", "y" >>, TextValue(<< "v" >>)) }

(***************************************************************************)
(* The state machine                                                       *)
(***************************************************************************)

\* no tree, and no .TagNodeMeta folder
EmptyTree == [ rootTags |-> Empty, untaggedFiles |-> Empty, nodes |-> Empty, meta |-> Empty ]

\* the record of a call: its name, arguments and result, and the name, the
\* target and the argument of the call made before it
Call(op, target, file, arg, arg2, ret) ==
    [ op |-> op, target |-> target, file |-> file, arg |-> arg, arg2 |-> arg2, ret |-> ret,
      prev |-> [ op |-> last.op, target |-> last.target, arg |-> last.arg ] ]

\* no call was made before
NoCall == [ op |-> "none", target |-> NULL, arg |-> Empty ]

\* the tree becomes t, its unreachable nodes collected
Holds(t) ==
    /\ rootTags' = t.rootTags
    /\ untaggedFiles' = t.untaggedFiles
    /\ nodes' = t.nodes
    /\ meta' = t.meta

Becomes(t) == Holds(Collected(t))

\* a call returns: the tree it leaves, and the record of the call
Returns(r, op, target, arg, arg2) ==
    /\ Becomes(r.t)
    /\ last' = Call(op, target, 0, arg, arg2, r.ret)

\* the views of the tag explorer
ViewIds == { 1, 2 }

\* a view no leaf has opened yet: new TagExplorerView(leaf, plugin)
NewView == [ open |-> FALSE, component |-> FALSE, shown |-> FALSE,
            currentTreeVersion |-> 0 ]

NoViews == [ v \in ViewIds |-> NewView ]

\* the version counter before the first recompute
NoVersion == 0

\* a version counter that a recompute leaves as it was
RecomputedVersionKept(version) == version

\* the version counter after one more successful recompute
RecomputedVersion(version) == version + 1

\* new TreeRoot(app, settings), which ends with recomputeTree(settings); the
\* .TagNodeMeta folder is as an earlier session left it
Constructed(vaults, settings, folders) ==
    /\ vault \in vaults
    /\ folderPathsToSkip \in settings
    /\ excludedFolders = ExcludedFoldersOf(folderPathsToSkip)
    /\ \E m \in folders :
        \E t \in RecomputeTree([ EmptyTree EXCEPT !.meta = m ], vault, folderPathsToSkip) :
            /\ rootTags = t.rootTags
            /\ untaggedFiles = t.untaggedFiles
            /\ nodes = t.nodes
            /\ meta = t.meta
    /\ last = [ op |-> "new TreeRoot", target |-> ROOT_PROXY, file |-> 0, arg |-> Empty,
                arg2 |-> Empty, ret |-> "void", prev |-> NoCall ]
    /\ ops = 0
    /\ treeVersion = RecomputedVersion(NoVersion)
    /\ plugin = [ treeRoot |-> TRUE, activeViews |-> {} ]
    /\ views = NoViews

Init == Constructed({ ApiVault }, SkipSettings, { Empty })

InitScan == Constructed(ScanVaults, SkipSettings, SidecarFolders)

\* one more call, on the same vault with the same settings
Frame ==
    /\ ops < MaxOps
    /\ ops' = ops + 1
    /\ UNCHANGED << vault, folderPathsToSkip, plugin, views >>

\* what a call other than recomputeTree leaves alone
OneCall == Frame /\ UNCHANGED << excludedFolders, treeVersion >>

\* treeRoot.recomputeTree(settings)
Recompute ==
    /\ Frame
    /\ excludedFolders' = ExcludedFoldersOf(folderPathsToSkip)
    /\ \E scanned \in { ScanVault(Tree, vault, folderPathsToSkip) } :
            /\ Cardinality(DOMAIN scanned.meta) <= MaxSidecars
            /\ \E t \in PopulateScanned(scanned) : Becomes(t)
    /\ treeVersion' = RecomputedVersion(treeVersion)
    /\ last' = Call("recomputeTree", ROOT_PROXY, 0, Empty, Empty, "void")

\* the user edits the excluded folders in the settings tab
SetFolderPathsToSkip ==
    /\ ops < MaxOps
    /\ ops' = ops + 1
    /\ \E text \in SkipSettings : text # folderPathsToSkip /\ folderPathsToSkip' = text
    /\ last' = Call("saveSettings", ROOT_PROXY, 0, Empty, Empty, "void")
    /\ UNCHANGED << rootTags, untaggedFiles, excludedFolders, nodes, meta, vault,
                    treeVersion, plugin, views >>

\* node.addChildNode(name)
NodeAddChildNode ==
    \E id \in DOMAIN nodes, name \in NameInputs :
        OneCall /\ Returns(AddChildNode(Tree, id, name), "addChildNode", id, name, Empty)

\* getNode('').addChildNode(name)
ProxyAddChildNode ==
    \E name \in NameInputs :
        OneCall /\ Returns(RootAddChildNode(Tree, name), "addChildNode", ROOT_PROXY, name, Empty)

\* node.createNewFile(name, path)
NodeCreateNewFile ==
    \E id \in DOMAIN nodes, name \in FileNameInputs, path \in FilePathInputs :
        OneCall /\ Returns(CreateNewFile(Tree, vault, id, name, path),
                           "createNewFile", id, name, path)

\* getNode('').createNewFile(name, path)
ProxyCreateNewFile ==
    \E name \in FileNameInputs, path \in FilePathInputs :
        OneCall /\ Returns(RootCreateNewFile(Tree, vault, name, path),
                           "createNewFile", ROOT_PROXY, name, path)

\* node.removeChildNode(name)
NodeRemoveChildNode ==
    \E id \in DOMAIN nodes, name \in ChildNameInputs :
        OneCall /\ Returns(RemoveChildNode(Tree, id, name), "removeChildNode", id, name, Empty)

\* getNode('').removeChildNode(name)
ProxyRemoveChildNode ==
    \E name \in ChildNameInputs \cup { << "a" >> } :
        OneCall /\ Returns(RootRemoveChildNode(Tree, name),
                           "removeChildNode", ROOT_PROXY, name, Empty)

\* node.removeFile(name)
NodeRemoveFile ==
    \E id \in DOMAIN nodes, name \in FileNames :
        OneCall /\ Returns(RemoveFile(Tree, id, name), "removeFile", id, name, Empty)

\* getNode('').removeFile(name)
ProxyRemoveFile ==
    \E name \in FileNames :
        OneCall /\ Returns(RootRemoveFile(Tree, name), "removeFile", ROOT_PROXY, name, Empty)

\* treeRoot.delChildNode(tagpath)
TreeDelChildNode ==
    \E tagpath \in DelPathInputs :
        OneCall /\ Returns(DelChildNode(Tree, tagpath), "delChildNode", ROOT_PROXY, tagpath, Empty)

\* treeRoot.delChildFile(filename, filepath, tagpath)
TreeDelChildFile ==
    \E f \in FileInputs, tagpath \in PathInputs \cup { Empty } :
        OneCall /\ Returns(DelChildFile(Tree, f.name, f.path, tagpath),
                           "delChildFile", ROOT_PROXY, tagpath, f.name)

\* node.renameNode(newName)
NodeRenameNode ==
    \E id \in DOMAIN nodes, name \in NameInputs :
        OneCall /\ Returns(RenameNode(Tree, id, name), "renameNode", id, name, Empty)

\* node.editPath(newPath)
NodeEditPath ==
    \E id \in DOMAIN nodes, path \in NewPathInputs :
        OneCall /\ Returns(EditPath(Tree, id, path), "editPath", id, path, Empty)

\* FileLeaf.editFileName, editPath and editTagPath
EditedLeaf(f, setter, value) ==
    IF setter = "editFileName" THEN [ f EXCEPT !.name = value ]
    ELSE IF setter = "editPath" THEN [ f EXCEPT !.path = value ]
    ELSE [ f EXCEPT !.tagpath = value ]

Setters == { "editFileName", "editPath", "editTagPath" }

\* treeRoot.getSortedTree()
TreeGetSortedTree ==
    /\ OneCall
    /\ \E r \in { GetSortedTree(Tree) } :
            /\ Becomes(r.t)
            /\ last' = Call("getSortedTree", ROOT_PROXY, 0, Empty, r.ret, "object")

\* a setter of a FileLeaf held by a node
NodeFileEdit ==
    \E id \in DOMAIN nodes, setter \in Setters, value \in EditInputs :
        \E k \in 1..Len(nodes[id].files) :
            /\ OneCall
            /\ nodes' = [ nodes EXCEPT ![id].files[k] = EditedLeaf(@, setter, value) ]
            /\ last' = Call(setter, id, k, value, Empty, "void")
            /\ UNCHANGED << rootTags, untaggedFiles, meta >>

\* a setter of a FileLeaf of the untagged list
ProxyFileEdit ==
    \E setter \in Setters, value \in EditInputs :
        \E k \in 1..Len(untaggedFiles) :
            /\ OneCall
            /\ untaggedFiles' = [ untaggedFiles EXCEPT ![k] = EditedLeaf(@, setter, value) ]
            /\ last' = Call(setter, ROOT_PROXY, k, value, Empty, "void")
            /\ UNCHANGED << rootTags, nodes, meta >>

Next ==
    \/ Recompute
    \/ NodeAddChildNode
    \/ ProxyAddChildNode
    \/ NodeCreateNewFile
    \/ ProxyCreateNewFile
    \/ NodeRemoveChildNode
    \/ ProxyRemoveChildNode
    \/ NodeRemoveFile
    \/ ProxyRemoveFile
    \/ TreeDelChildNode
    \/ TreeDelChildFile
    \/ NodeRenameNode
    \/ NodeEditPath
    \/ NodeFileEdit
    \/ ProxyFileEdit
    \/ TreeGetSortedTree

\* the calls of the interface on a tree built from the vault
Spec == Init /\ [][Next]_vars

NextScan == Recompute \/ SetFolderPathsToSkip

\* construction and recomputation over the vaults, the settings changing
SpecScan == InitScan /\ [][NextScan]_vars

\* the tree of an empty vault, with the tag folder of the sidecar on disk
InitMeta == Constructed({ Empty }, { Empty }, MetaFolders)

\* the record of a call of updateMeta, and the sidecar folder it leaves
MetaUpdated(updated, target, payload) ==
    /\ meta' = updated.m
    /\ last' = Call("updateMeta", target, 0, payload, Empty, updated.ret)
    /\ UNCHANGED << rootTags, untaggedFiles, nodes >>

\* node.updateMeta(payload)
NodeUpdateMeta ==
    \E id \in DOMAIN nodes, payload \in PayloadInputs :
        OneCall /\ MetaUpdated(UpdateMeta(meta, nodes[id].path, payload), id, payload)

\* updateMeta of the root proxy: (payload) => false
ProxyUpdateMeta ==
    \E payload \in PayloadInputs :
        OneCall /\ MetaUpdated([ m |-> meta, ret |-> "false" ], ROOT_PROXY, payload)

\* node.readMeta()
NodeReadMeta ==
    \E id \in DOMAIN nodes :
        /\ OneCall
        /\ last' = Call("readMeta", id, 0, Empty, ReadMeta(meta, nodes[id].path), "record")
        /\ UNCHANGED << rootTags, untaggedFiles, nodes, meta >>

\* readMeta of the root proxy: () => ({})
ProxyReadMeta ==
    /\ OneCall
    /\ last' = Call("readMeta", ROOT_PROXY, 0, Empty, <<>>, "record")
    /\ UNCHANGED << rootTags, untaggedFiles, nodes, meta >>

NextMeta == NodeUpdateMeta \/ ProxyUpdateMeta \/ NodeReadMeta \/ ProxyReadMeta

\* the metadata of a tag folder, read and updated
SpecMeta == InitMeta /\ [][NextMeta]_vars

\* the vaults of the trees whose sidecars are created and deleted: no
\* document, a document labeled a, a document labeled with a character
\* outside Latin-1
SidecarVaults ==
    { Empty, << FileA(<< HashA >>) >>, << FileA(<< << "#", Wide >> >>) >> }

\* the tree of such a vault, the .TagNodeMeta folder holding nothing or the
\* sidecar of one tag folder
InitSidecar == Constructed(SidecarVaults, { Empty }, { Empty } \cup MetaFolders)

\* the record of a call on the sidecar of a node, and the folder it leaves
MetaCalled(op, called, target) ==
    /\ meta' = called.m
    /\ last' = Call(op, target, 0, Empty, Empty, called.ret)
    /\ UNCHANGED << rootTags, untaggedFiles, nodes >>

\* node.createNewMeta()
NodeCreateNewMeta ==
    \E id \in DOMAIN nodes :
        OneCall /\ MetaCalled("createNewMeta",
                              CreatedMeta(meta, nodes[id].name, nodes[id].path), id)

\* node.deleteMeta()
NodeDeleteMeta ==
    \E id \in DOMAIN nodes :
        OneCall /\ MetaCalled("deleteMeta", DeletedMeta(meta, nodes[id].path), id)

NextSidecar ==
    \/ NodeCreateNewMeta
    \/ NodeDeleteMeta
    \/ NodeUpdateMeta
    \/ NodeReadMeta
    \/ Recompute

\* the sidecars created, read, updated and deleted, and the tree recomputed
SpecSidecar == InitSidecar /\ [][NextSidecar]_vars

\* the vaults the plugin is loaded on: no document, a document labeled a
ViewVaults == { Empty, << FileA(<< HashA >>) >> }

\* the plugin is loaded; the layout is not ready, no tree is built, and no
\* leaf shows a tag explorer yet
InitViews ==
    /\ rootTags = Empty /\ untaggedFiles = Empty /\ nodes = Empty /\ meta = Empty
    /\ vault \in ViewVaults /\ folderPathsToSkip = Empty /\ excludedFolders = {}
    /\ ops = 0
    /\ treeVersion = NoVersion
    /\ plugin = [ treeRoot |-> FALSE, activeViews |-> {} ]
    /\ views = NoViews
    /\ last = [ op |-> "onload", target |-> NULL, file |-> 0, arg |-> Empty,
                arg2 |-> Empty, ret |-> "void", prev |-> NoCall ]

\* plugin.getTreeVersion(): this.treeRoot?.getTreeVersion() ?? 0
GetTreeVersion == IF plugin.treeRoot THEN treeVersion ELSE 0

\* updateTree updating the component without storing the version
UpdateTreeKeepingVersion(view, version) == view

\* view.updateTree(treeData, version)
UpdateTree(view, version) == [ view EXCEPT !.currentTreeVersion = version ]

\* view.renderView(): the version is read and the component mounted
RenderView(view, version) ==
    [ view EXCEPT !.currentTreeVersion = version, !.component = TRUE ]

\* view.refreshTree(): nothing without a component, nothing without a tree
RefreshTree(view, treeData, version) ==
    IF ~view.component THEN view
    ELSE IF treeData THEN UpdateTree(view, version)
    ELSE view

\* view.onViewBecameActive(): the tree is fetched if the version has changed
OnViewBecameActive(view, treeData, version) ==
    IF view.currentTreeVersion # version THEN RefreshTree(view, treeData, version)
    ELSE view

\* what a view or the plugin does leaves the tree and the vault alone; the
\* call is recorded with the view it is made on
ViewCall(op, v) ==
    /\ last' = Call(op, v, 0, Empty, Empty, "void")
    /\ UNCHANGED << rootTags, untaggedFiles, excludedFolders, nodes, meta, vault,
                    folderPathsToSkip, ops, treeVersion >>

\* plugin.initializeTree(): new TreeRoot(app, settings), once the layout is
\* ready and the metadata cache resolved
InitializeTree ==
    /\ ~plugin.treeRoot
    /\ plugin' = [ plugin EXCEPT !.treeRoot = TRUE ]
    /\ excludedFolders' = ExcludedFoldersOf(folderPathsToSkip)
    /\ \E t \in RecomputeTree([ EmptyTree EXCEPT !.meta = meta ], vault, folderPathsToSkip) :
            Holds(t)
    /\ treeVersion' = RecomputedVersion(NoVersion)
    /\ last' = Call("new TreeRoot", ROOT_PROXY, 0, Empty, Empty, "void")
    /\ UNCHANGED << vault, folderPathsToSkip, ops, views >>

\* plugin.treeRoot.recomputeTree(settings), once the tree is built
PluginRecompute == plugin.treeRoot /\ Recompute

\* view.onOpen(): the view is registered and rendered; whether its container
\* is shown is the workspace's choice
ViewOnOpen ==
    \E v \in ViewIds, shown \in BOOLEAN :
        /\ ~views[v].open
        /\ plugin' = [ plugin EXCEPT !.activeViews = @ \cup { v } ]
        /\ views' = [ views EXCEPT ![v] =
                RenderView([ NewView EXCEPT !.open = TRUE, !.shown = shown ],
                           GetTreeVersion) ]
        /\ ViewCall("onOpen", v)

\* view.onClose(): the view is unregistered and its component unmounted
ViewOnClose ==
    \E v \in ViewIds :
        /\ views[v].open
        /\ plugin' = [ plugin EXCEPT !.activeViews = @ \ { v } ]
        /\ views' = [ views EXCEPT ![v] =
                [ @ EXCEPT !.open = FALSE, !.component = FALSE, !.shown = FALSE ] ]
        /\ ViewCall("onClose", v)

\* the workspace shows or hides the container of a view: a tab is switched,
\* a sidebar collapsed
ViewShownChanges ==
    \E v \in ViewIds :
        /\ views[v].open
        /\ views' = [ views EXCEPT ![v] = [ @ EXCEPT !.shown = ~@ ] ]
        /\ UNCHANGED plugin
        /\ ViewCall("isShown", v)

\* 'active-leaf-change' with the leaf of the view: view.onViewBecameActive()
ViewBecameActive ==
    \E v \in ViewIds :
        /\ views[v].open
        /\ views' = [ views EXCEPT ![v] =
                OnViewBecameActive([ @ EXCEPT !.shown = TRUE ], plugin.treeRoot,
                                   GetTreeVersion) ]
        /\ UNCHANGED plugin
        /\ ViewCall("onViewBecameActive", v)

\* plugin.broadcastTreeUpdate(): the views registered and shown are updated
BroadcastTreeUpdate ==
    /\ plugin.treeRoot
    /\ views' = [ v \in ViewIds |->
            IF v \in plugin.activeViews /\ views[v].shown
            THEN UpdateTree(views[v], treeVersion)
            ELSE views[v] ]
    /\ UNCHANGED plugin
    /\ ViewCall("broadcastTreeUpdate", NULL)

NextViews ==
    \/ InitializeTree
    \/ PluginRecompute
    \/ ViewOnOpen
    \/ ViewOnClose
    \/ ViewShownChanges
    \/ ViewBecameActive
    \/ BroadcastTreeUpdate

\* the tag explorer views of the plugin, the tree built and recomputed
SpecViews == InitViews /\ [][NextViews]_vars

\* the vaults of the trees whose nodes are deleted: no document, a document
\* labeled c
DeleteVaults == { Empty, << FileA(<< HashC >>) >> }

\* the .TagNodeMeta folder of such a tree: the sidecars of the tag folders a,
\* a/b and c, or of a, a/b and a/b/d
DeleteFolders ==
    { SidecarsOf(<< [ name |-> << "a" >>, path |-> << "a" >> ],
                    [ name |-> << "b" >>, path |-> << "a", "/", "b" >> ],
                    [ name |-> << "c" >>, path |-> << "c" >> ] >>, 1),
      SidecarsOf(<< [ name |-> << "a" >>, path |-> << "a" >> ],
                    [ name |-> << "b" >>, path |-> << "a", "/", "b" >> ],
                    [ name |-> << "d" >>, path |-> << "a", "/", "b", "/", "d" >> ] >>, 1) }

\* the tree of such a vault, its empty tag folders populated from the sidecars
InitDelete == Constructed(DeleteVaults, { Empty }, DeleteFolders)

NextDelete == TreeDelChildNode \/ Recompute

\* nodes deleted by their label path, and the tree recomputed
SpecDelete == InitDelete /\ [][NextDelete]_vars

\* a node is about to be made at a label path; there is no tree yet
InitNames ==
    /\ rootTags = Empty /\ untaggedFiles = Empty /\ nodes = Empty /\ meta = Empty
    /\ vault = Empty /\ folderPathsToSkip = Empty /\ excludedFolders = {}
    /\ ops = 0
    /\ treeVersion = NoVersion
    /\ plugin = [ treeRoot |-> FALSE, activeViews |-> {} ]
    /\ views = NoViews
    /\ \E P \in LabelPathInputs :
            last = [ op |-> "new TagNode", target |-> NULL, file |-> 0, arg |-> P,
                     arg2 |-> Empty, ret |-> "void", prev |-> NoCall ]

\* a call on a name: no tree, no file is touched
NameCall ==
    /\ ops' = ops + 1
    /\ UNCHANGED << rootTags, untaggedFiles, excludedFolders, nodes, meta, vault,
                    folderPathsToSkip, treeVersion, plugin, views >>

\* the record of a call of getMetadataFilePath on the node at the path
Named(path, file) ==
    IF file = Thrown THEN Call("getMetadataFilePath", NULL, 0, path, Empty, "throws")
    ELSE Call("getMetadataFilePath", NULL, 0, path, file, "string")

\* node.getMetadataFilePath(), the node being at the path last.arg
NodeGetMetadataFilePath ==
    /\ last.op = "new TagNode"
    /\ NameCall
    /\ last' = Named(last.arg, GetMetadataFilePath(last.arg))

\* treeRoot.extractTagPathFromFilename(filename), on the name just produced
TreeExtractTagPathFromFilename ==
    /\ last.op = "getMetadataFilePath" /\ last.ret = "string"
    /\ NameCall
    /\ last' = Call("extractTagPathFromFilename", NULL, 0, last.arg,
                    ExtractTagPathFromFilename(last.arg2), "string")

NextNames == NodeGetMetadataFilePath \/ TreeExtractTagPathFromFilename

\* the sidecar name of a label path, computed and decoded
SpecNames == InitNames /\ [][NextNames]_vars

(***************************************************************************)
(* The scan: what recomputeTree builds from the vault                      *)
(***************************************************************************)

\* the tree was just built: by the constructor or by recomputeTree
AfterRecompute == last.op \in { "new TreeRoot", "recomputeTree" }

\* the files of the vault the scan visits
Visited == { i \in 1..Len(vault) : IsVisited(excludedFolders, vault[i]) }

\* a document, as a name and a storage path
Doc(i) == [ name |-> vault[i].basename, path |-> vault[i].path ]

\* the label paths a file carries
LabelPaths(i) == Range(RetrieveAllPaths(vault[i]))

\* the documents a collection of FileLeaf holds
Docs(files) == { [ name |-> files[k].name, path |-> files[k].path ] : k \in DOMAIN files }

\* the visited documents that carry the label path
Carrying(P) == { Doc(i) : i \in { j \in Visited : P \in LabelPaths(j) } }

\* a label path of non-empty segments
WellFormed(P) == \A k \in DOMAIN Split(P) : Split(P)[k] # Empty

\* the visited documents have pairwise distinct names
DistinctNames == \A i, j \in Visited : i # j => vault[i].basename # vault[j].basename

\* every label path of a visited document is well formed
WellFormedPaths == \A i \in Visited : \A P \in LabelPaths(i) : WellFormed(P)

\* the tree holds exactly what the scan dictates
ExactScan ==
    /\ Docs(untaggedFiles) = { Doc(i) : i \in { j \in Visited : LabelPaths(j) = {} } }
    /\ Len(untaggedFiles) = Cardinality(Docs(untaggedFiles))
    /\ \A i \in Visited : \A P \in LabelPaths(i) :
            /\ GetNode(Tree, P) \in DOMAIN nodes
            /\ Docs(nodes[GetNode(Tree, P)].files) = Carrying(P)
    /\ \A n \in DOMAIN nodes :
            /\ Docs(nodes[n].files) \subseteq Carrying(nodes[n].path)
            /\ Len(nodes[n].files) = Cardinality(Docs(nodes[n].files))

\* C1: after recomputeTree over a vault whose visited documents have pairwise
\* distinct names and whose label paths consist of non-empty segments, the
\* untagged list is exactly the visited documents without a label path, and for
\* every label path P the node at P holds exactly the visited documents carrying P
C1_RecomputeExact ==
    (AfterRecompute /\ DistinctNames /\ WellFormedPaths) => ExactScan

\* some segment of a label path of a visited document is a name that every
\* object inherits from Object.prototype
PrototypeSegment ==
    \E i \in Visited : \E P \in LabelPaths(i) :
        \E k \in DOMAIN Split(P) : Split(P)[k] \in ObjectPrototypeKeys

\* what holds of C1 in the code: the scan is exact when, besides, no segment is
\* a name inherited from Object.prototype
C1_ExactButForPrototypeNames ==
    (AfterRecompute /\ DistinctNames /\ WellFormedPaths /\ ~PrototypeSegment) => ExactScan

\* the example of C1 is reached: fruit with the children apple and orange,
\* apple holding A, orange holding B, C untagged
C1_FruitExample ==
    /\ last.op = "recomputeTree"
    /\ vault = FruitVault
    /\ Len(rootTags) = 1
    /\ nodes[rootTags[1]].name = Fruit
    /\ Len(nodes[rootTags[1]].children) = 2
    /\ Docs(nodes[GetNode(Tree, TagName(HashFruitApple))].files) = { Doc(1) }
    /\ Docs(nodes[GetNode(Tree, TagName(HashFruitOrange))].files) = { Doc(2) }
    /\ Docs(untaggedFiles) = { Doc(3) }

\* the case C1 fails on: a document whose only label path is a/constructor is
\* visited, and after recomputeTree no node and no list holds it
C1_DocumentLost ==
    /\ last.op = "recomputeTree"
    /\ DistinctNames /\ WellFormedPaths
    /\ \E i \in Visited :
            /\ LabelPaths(i) = { TagName(HashACtor) }
            /\ Doc(i) \notin Docs(untaggedFiles)
            /\ \A n \in DOMAIN nodes : Doc(i) \notin Docs(nodes[n].files)

\* the document is held by the node getNode finds at the label path
HeldUnder(i, P) ==
    /\ GetNode(Tree, P) \in DOMAIN nodes
    /\ Doc(i) \in Docs(nodes[GetNode(Tree, P)].files)

\* what getAllInstancesOfFile returns for the document, as a set
Instances(i) == Range(GetAllInstancesOfFile(Tree, Doc(i).name, Doc(i).path))

\* the empty-string sentinel, if the document is held by the untagged list
Sentinel(i) == IF Doc(i) \in Docs(untaggedFiles) THEN { Empty } ELSE {}

\* the document is held under each of its label paths, and
\* getAllInstancesOfFile returns exactly these paths
MultiMember(i) ==
    /\ \A P \in LabelPaths(i) : HeldUnder(i, P)
    /\ Instances(i) = LabelPaths(i) \cup Sentinel(i)

\* C2: after recomputeTree a document carrying the label paths L (of non-empty
\* segments) is held under each node of L, and getAllInstancesOfFile(name,
\* path) returns exactly the set L, plus '' only if the untagged list holds it
C2_MultiMembership ==
    AfterRecompute =>
        \A i \in Visited : (\A P \in LabelPaths(i) : WellFormed(P)) => MultiMember(i)

\* what holds of C2 in the code: multi-membership when, besides, the visited
\* documents have distinct names and no segment is inherited from Object.prototype
C2_ButForSameNamesAndPrototypeNames ==
    (AfterRecompute /\ DistinctNames /\ ~PrototypeSegment) =>
        \A i \in Visited : (\A P \in LabelPaths(i) : WellFormed(P)) => MultiMember(i)

\* the example of C2 is reached: the document tagged a/b and c is held under
\* both nodes and getAllInstancesOfFile returns the two paths
C2_TwoInstances ==
    /\ last.op = "recomputeTree"
    /\ \E i \in Visited :
            /\ LabelPaths(i) = { TagName(HashAB), TagName(HashC) }
            /\ GetAllInstancesOfFile(Tree, Doc(i).name, Doc(i).path)
                    = << TagName(HashAB), TagName(HashC) >>

\* the case C2 fails on: two visited documents named A carry the label path a,
\* the node a holds the first, and getAllInstancesOfFile of the second is empty
C2_SecondDocumentRejected ==
    /\ last.op = "recomputeTree"
    /\ ~PrototypeSegment
    /\ \E i, j \in Visited :
            /\ i < j
            /\ Doc(i).name = Doc(j).name
            /\ LabelPaths(i) = { TagName(HashA) }
            /\ LabelPaths(j) = { TagName(HashA) }
            /\ HeldUnder(i, TagName(HashA))
            /\ GetAllInstancesOfFile(Tree, Doc(j).name, Doc(j).path) = <<>>

(***************************************************************************)
(* The invariants of the tree under the calls of the interface             *)
(***************************************************************************)

\* the DocumentRefs held by a node and all of its descendants: a node of the
\* subtree and a position in its files
HeldBelow(n) ==
    UNION { { << m, k >> : k \in 1..Len(nodes[m].files) } : m \in Subtree(nodes, n) }

\* the serialized nodes of a serialized subtree, with the node they were made of
RECURSIVE Emitted(_, _)
Emitted(n, s) ==
    { << n, s >> } \cup
        UNION { Emitted(nodes[n].children[k].node, s.children[k]) :
                    k \in 1..Len(nodes[n].children) }

\* every serialized node the output of serializeTree contains
AllEmitted ==
    UNION { Emitted(rootTags[k], SerializeTree(Tree).rootTags[k]) : k \in 1..Len(rootTags) }

\* C3: in every reachable state the totalFileCount that serializeTree emits
\* for a node is the number of DocumentRefs held by the node and all of its
\* descendants, and it is 0 for a node whose subtree holds none
C3_CountCorrect ==
    \A e \in AllEmitted : e[2].totalFileCount = Cardinality(HeldBelow(e[1]))

\* the case of C3 is reached: after a successful createNewFile on a node that
\* has a parent, the parent's count exceeds the number of its own documents,
\* while another node of the tree counts 0
C3_CountsDescendants ==
    /\ last.op = "createNewFile" /\ last.ret = "true"
    /\ last.target \in DOMAIN nodes
    /\ nodes[last.target].parent # NULL
    /\ \E e \in AllEmitted :
            /\ e[1] = nodes[last.target].parent
            /\ e[2].totalFileCount > Len(nodes[e[1]].files)
            /\ e[2].totalFileCount >= 4
    /\ \E e \in AllEmitted : e[2].totalFileCount = 0

\* no two elements of a sequence of nodes have the same name
DistinctNodeNames(ns, ids) ==
    \A i, j \in 1..Len(ids) : i # j => ns[ids[i]].name # ns[ids[j]].name

\* the children of a node, in the order of its dictionary
ChildrenOf(ns, n) == [ k \in 1..Len(ns[n].children) |-> ns[n].children[k].node ]

SiblingNamesUnique(t) ==
    /\ DistinctNodeNames(t.nodes, t.rootTags)
    /\ \A n \in DOMAIN t.nodes : DistinctNodeNames(t.nodes, ChildrenOf(t.nodes, n))

\* C4: in every reachable state, after any sequence of calls (recomputeTree,
\* addChildNode on nodes or on the root proxy, removeChildNode, delChildNode,
\* renameNode, editPath), no two children of the same node have the same name
\* and no two top-level nodes have the same name
C4_SiblingNamesUnique == SiblingNamesUnique(Tree)

\* the tree of the next state
TreeNext == [ rootTags |-> rootTags', untaggedFiles |-> untaggedFiles',
              nodes |-> nodes', meta |-> meta' ]

\* every child is stored in its parent's dictionary under its name
KeysAreNames(t) ==
    \A n \in DOMAIN t.nodes : \A k \in 1..Len(t.nodes[n].children) :
        t.nodes[n].children[k].key = t.nodes[t.nodes[n].children[k].node].name

\* what holds of C4 in the code: every call other than renameNode and editPath
\* keeps the names of siblings distinct and the keys equal to the names
C4_KeptByOtherCalls ==
    [][(/\ last'.op \notin { "renameNode", "editPath" }
        /\ SiblingNamesUnique(Tree) /\ KeysAreNames(Tree))
            => (SiblingNamesUnique(TreeNext) /\ KeysAreNames(TreeNext))]_vars

\* the case C4 fails on: renameNode returned true and two top-level nodes
\* have the name it was given
C4_RenamedToSiblingName ==
    /\ last.op = "renameNode" /\ last.ret = "true"
    /\ \E i, j \in 1..Len(rootTags) :
            /\ i # j
            /\ nodes[rootTags[i]].name = Trim(last.arg)
            /\ nodes[rootTags[j]].name = Trim(last.arg)

\* no two FileLeaf of a collection have the same name
DistinctFileNames(files) ==
    \A i, j \in 1..Len(files) : i # j => files[i].name # files[j].name

\* C5: in every reachable state, after any sequence of createNewFile,
\* removeFile, recomputeTree and edits of FileLeaf fields, no two FileLeaf
\* held directly by the same node have the same name
C5_DocumentNamesUnique == \A n \in DOMAIN nodes : DistinctFileNames(nodes[n].files)

\* the case C5 fails on: createNewFile was given a name with a leading blank,
\* returned true, and the node holds two documents of the trimmed name
C5_TrimmedDuplicate ==
    /\ last.op = "createNewFile" /\ last.ret = "true"
    /\ last.target \in DOMAIN nodes
    /\ last.arg # Trim(last.arg)
    /\ \E i, j \in 1..Len(nodes[last.target].files) :
            /\ i # j
            /\ nodes[last.target].files[i].name = Trim(last.arg)
            /\ nodes[last.target].files[j].name = Trim(last.arg)

\* what holds of C5 in the code: recomputeTree, removeFile and createNewFile
\* with a name that has no surrounding blanks keep the names distinct
C5_KeptByTrimmedCalls ==
    [][(/\ last'.op \notin Setters
        /\ last'.arg = Trim(last'.arg)
        /\ \A n \in DOMAIN nodes : DistinctFileNames(nodes[n].files))
            => \A n \in DOMAIN nodes' : DistinctFileNames(nodes'[n].files)]_vars

\* the path of a node is parent.path + "/" + name, or name without a parent
PathOk(t, n) ==
    IF t.nodes[n].parent # NULL
    THEN t.nodes[n].path = t.nodes[t.nodes[n].parent].path \o << "/" >> \o t.nodes[n].name
    ELSE t.nodes[n].path = t.nodes[n].name

\* the nodes whose path is not what their parent and name make it
Broken(t) == { n \in DOMAIN t.nodes : ~PathOk(t, n) }

HolderConsistent(t, n, f) ==
    /\ f.tagpath = t.nodes[n].path
    /\ GetNode(t, f.tagpath) = n

HoldersConsistent(t) ==
    /\ \A n \in DOMAIN t.nodes : \A k \in 1..Len(t.nodes[n].files) :
            HolderConsistent(t, n, t.nodes[n].files[k])
    /\ \A k \in 1..Len(t.untaggedFiles) : t.untaggedFiles[k].tagpath = Empty

\* C7: in every reachable state every FileLeaf held by a node of the tree has
\* a tagpath equal to the path of that node, getNode(tagpath) returns the node
\* that holds it, and every FileLeaf of the untagged list has the tagpath ''
C7_HolderConsistent == HoldersConsistent(Tree)

\* a case C7 fails on: createNewFile succeeded on a node that addChildNode
\* created under a name holding a slash; getNode of the document's tagpath
\* does not return the node
C7_HolderNotFound ==
    /\ last.op = "createNewFile" /\ last.ret = "true"
    /\ last.target \in DOMAIN nodes
    /\ Len(Split(nodes[last.target].name)) > 1
    /\ \E k \in 1..Len(nodes[last.target].files) :
            /\ nodes[last.target].files[k].tagpath = nodes[last.target].path
            /\ GetNode(Tree, nodes[last.target].files[k].tagpath) # last.target

\* another case C7 fails on: renameNode succeeded on a node that holds
\* documents, and their tagpath is still the old path
C7_StaleTagPath ==
    /\ last.op = "renameNode" /\ last.ret = "true"
    /\ \E k \in 1..Len(nodes[last.target].files) :
            nodes[last.target].files[k].tagpath # nodes[last.target].path

\* getNode of the path of every node returns the node
Addressable(t) == \A n \in DOMAIN t.nodes : GetNode(t, t.nodes[n].path) = n

\* what holds of C7 in the code: the constructed tree is consistent and every
\* node is found at its path, and calls other than renameNode, editPath, the
\* FileLeaf setters and addChildNode with a name holding a slash keep it so
C7_KeptByPlainCalls ==
    /\ HoldersConsistent(Tree) /\ Addressable(Tree)
    /\ [][(/\ last'.op \notin { "renameNode", "editPath" } \cup Setters
           /\ ~(last'.op = "addChildNode" /\ Len(Split(last'.arg)) > 1)
           /\ HoldersConsistent(Tree) /\ Addressable(Tree))
                => (HoldersConsistent(TreeNext) /\ Addressable(TreeNext))]_vars

\* the paths below P that lead to the descendants of a node: P, a slash and
\* the key of a child, and so on down
RECURSIVE DescendantPaths(_, _, _)
DescendantPaths(ns, n, P) ==
    UNION { { P \o << "/" >> \o ns[n].children[k].key }
                \cup DescendantPaths(ns, ns[n].children[k].node,
                                     P \o << "/" >> \o ns[n].children[k].key) :
            k \in 1..Len(ns[n].children) }

\* delChildNode(P) has just succeeded on a node that had children
DeletedWithChildren ==
    /\ last'.op = "delChildNode" /\ last'.ret = "true"
    /\ GetNode(Tree, last'.arg) \in DOMAIN nodes
    /\ nodes[GetNode(Tree, last'.arg)].children # Empty

\* the node and its descendants are gone: getNode finds nothing at P or at a
\* path below it, and no node of the subtree is still in the tree
Orphaned(n, P) ==
    /\ GetNode(TreeNext, P) = NULL
    /\ \A Q \in DescendantPaths(nodes, n, P) : GetNode(TreeNext, Q) = NULL
    /\ Subtree(nodes, n) \cap Reachable(TreeNext) = {}

\* C8: after delChildNode(P) succeeds on a node that has children, P is no
\* longer in its parent's children (or in rootTags), getNode(P) and getNode(Q)
\* for every descendant path Q of P return null, and no descendant is reparented
C8_Orphaning ==
    [][DeletedWithChildren => Orphaned(GetNode(Tree, last'.arg), last'.arg)]_vars

\* what holds of C8 in the code: the contract, when the names of siblings are
\* distinct and the keys of children are their names
C8_OrphaningOfDistinctNames ==
    [][(DeletedWithChildren /\ SiblingNamesUnique(Tree) /\ KeysAreNames(Tree))
            => Orphaned(GetNode(Tree, last'.arg), last'.arg)]_vars

\* delChildNode succeeded on a top-level path, nothing is left below it, and
\* a sidecar of a path below it is still there: a node with children was deleted
C8_DeletedWithChildren ==
    /\ last.op = "delChildNode" /\ last.ret = "true"
    /\ Len(TagSegments(last.arg)) = 1
    /\ GetNode(Tree, last.arg) = NULL
    /\ GetNode(Tree, last.arg \o << "/", "b" >>) = NULL
    /\ MetaExists(meta, last.arg \o << "/", "b" >>)

\* the case C8 fails on: delChildNode(P) returned true and getNode(P) still
\* returns a node, a second top-level node of the same name
C8_StillFound ==
    /\ last.op = "delChildNode" /\ last.ret = "true"
    /\ GetNode(Tree, last.arg) \in DOMAIN nodes

\* the node an explicit delete is about to remove, NULL when it is none:
\* the node delChildNode finds at the path, the child removeChildNode is given
\* the name of, the top-level node the root proxy is given the name of
Doomed(op, target, arg) ==
    IF op = "delChildNode" THEN GetNode(Tree, arg)
    ELSE IF op = "removeChildNode" /\ target = ROOT_PROXY THEN FindRootTag(Tree, arg)
    ELSE IF op = "removeChildNode" THEN GetChild(nodes, target, arg)
    ELSE NULL

\* an explicit delete has just succeeded
Deleted ==
    /\ last'.op \in { "delChildNode", "removeChildNode" }
    /\ last'.ret = "true"
    /\ Doomed(last'.op, last'.target, last'.arg) \in DOMAIN nodes

\* C9: after a successful explicit delete of the node at path P (delChildNode
\* of a top-level or nested P, removeChildNode on a node or on the root
\* proxy), no metadata sidecar file for P exists
C9_DeleteRemovesSidecar ==
    [][Deleted =>
        ~MetaExists(meta', nodes[Doomed(last'.op, last'.target, last'.arg)].path)]_vars

\* what holds of C9 in the code: the sidecar is gone after the delete of a
\* node that has a parent
C9_NestedDeleteRemovesSidecar ==
    [][(Deleted /\ nodes[Doomed(last'.op, last'.target, last'.arg)].parent # NULL) =>
        ~MetaExists(meta', nodes[Doomed(last'.op, last'.target, last'.arg)].path)]_vars

\* the case C9 fails on: delChildNode of a top-level path returned true, no
\* node is found at the path, and the sidecar of the path is still there
C9_TopLevelSidecarLeft ==
    /\ last.op = "delChildNode" /\ last.ret = "true"
    /\ Len(TagSegments(last.arg)) = 1
    /\ GetNode(Tree, last.arg) = NULL
    /\ MetaExists(meta, last.arg)

\* a nested delete is reached: delChildNode of a path of two segments returned
\* true and the sidecar of the path is gone
C9_NestedSidecarGone ==
    /\ last.op = "delChildNode" /\ last.ret = "true"
    /\ Len(TagSegments(last.arg)) = 2
    /\ ~MetaExists(meta, last.arg)

\* the name of a sidecar file: the last component of its path under .TagNodeMeta
FileName(file) == Split(file)[Len(Split(file))]

\* the label paths the names of the sidecar files decode to, the empty ones left out
SidecarPaths(m) ==
    { ExtractTagPathFromFilename(FileName(f)) :
        f \in { g \in DOMAIN m : EndsWith(FileName(g), DotMd) } } \ { Empty }

\* C10: after recomputeTree, for every sidecar file of the metadata directory
\* whose filename decodes to a non-empty label path P, getNode(P) returns a
\* node; a node that holds no document persists as long as its sidecar exists
C10_Reconciled ==
    AfterRecompute => \A P \in SidecarPaths(meta) : GetNode(Tree, P) \in DOMAIN nodes

\* a sidecar decodes to a label path with a segment inherited from Object.prototype
PrototypeSidecar ==
    \E P \in SidecarPaths(meta) : \E k \in DOMAIN Split(P) : Split(P)[k] \in ObjectPrototypeKeys

\* what holds of C10 in the code: the reconciliation, when no sidecar decodes
\* to a path with a segment inherited from Object.prototype
C10_ReconciledButForPrototypeNames ==
    (AfterRecompute /\ ~PrototypeSidecar) =>
        \A P \in SidecarPaths(meta) : GetNode(Tree, P) \in DOMAIN nodes

\* the case of C10 is reached: after recomputeTree a node that no document of
\* the vault carries is in the tree, without documents, because its sidecar exists
C10_EmptyNodeRebuilt ==
    /\ last.op = "recomputeTree"
    /\ \E P \in SidecarPaths(meta) :
            /\ \A i \in 1..Len(vault) : P \notin LabelPaths(i)
            /\ GetNode(Tree, P) \in DOMAIN nodes
            /\ nodes[GetNode(Tree, P)].files = Empty

\* the case C10 fails on: after recomputeTree a sidecar decodes to a path that
\* getNode does not resolve to a node
C10_SidecarWithoutNode ==
    /\ last.op = "recomputeTree"
    /\ \E P \in SidecarPaths(meta) : GetNode(Tree, P) \notin DOMAIN nodes

(***************************************************************************)
(* Recomputing twice                                                       *)
(***************************************************************************)

\* a serialized node, the order of its children and of its files forgotten
RECURSIVE Unordered(_)
Unordered(s) ==
    [ name |-> s.name,
      path |-> s.path,
      children |-> { Unordered(s.children[k]) : k \in DOMAIN s.children },
      files |-> Range(s.files),
      totalFileCount |-> s.totalFileCount ]

\* a serialized tree, the order of its root tags and untagged files forgotten
UnorderedTree(st) ==
    [ rootTags |-> { Unordered(st.rootTags[k]) : k \in DOMAIN st.rootTags },
      untaggedFiles |-> Range(st.untaggedFiles) ]

\* two serialize outputs have the same names, paths, children, file sets and counts
StructurallyEqual(s1, s2) == UnorderedTree(s1) = UnorderedTree(s2)

\* recomputeTree is called on a tree that the constructor or recomputeTree
\* built with the same settings from the same vault
RecomputedAgain == AfterRecompute /\ last'.op = "recomputeTree"

C11_IdempotentButForPrototypeNames ==
    [][(RecomputedAgain /\ ~PrototypeSidecar) =>
        StructurallyEqual(SerializeTree(Tree), SerializeTree(Tree'))]_vars

\* the case of C11 is reached: recomputeTree ran right after the tree was
\* built, read back the sidecars the first run created and rebuilt a tree
\* with a node that holds a document
C11_RecomputedTwice ==
    /\ last.op = "recomputeTree"
    /\ last.prev.op \in { "new TreeRoot", "recomputeTree" }
    /\ \E n \in DOMAIN nodes : nodes[n].files # Empty /\ MetaExists(meta, nodes[n].path)

Encoded == last.op = "getMetadataFilePath" /\ last.ret = "string"

\* extractTagPathFromFilename returned last.arg2 for the name made of last.arg
Decoded == last.op = "extractTagPathFromFilename"

\* no other valid label path has the sidecar name last.arg2
NameOfOnePath ==
    \A Q \in LabelPathInputs \ { last.arg } : GetMetadataFilePath(Q) # last.arg2

\* C12: for every valid label path P (slash-joined segments of printable
\* non-slash characters, underscores included) getMetadataFilePath produces a
\* sidecar filename, extractTagPathFromFilename of that filename is exactly P,
\* and no other valid path produces the same filename
C12_FilenameRoundTrip ==
    /\ last.op = "getMetadataFilePath" => (last.ret = "string" /\ NameOfOnePath)
    /\ Decoded => last.arg2 = last.arg

\* the label path has a character outside Latin-1
HasWide(P) == \E i \in 1..Len(P) : P[i] = Wide

\* what holds of C12 in the code: the round trip and the distinct names, for
\* the label paths of Latin-1 characters
C12_RoundTripOfLatin1 ==
    /\ (last.op = "getMetadataFilePath" /\ ~HasWide(last.arg)) =>
            (last.ret = "string" /\ NameOfOnePath)
    /\ Decoded => (last.arg2 = last.arg /\ ~HasWide(last.arg))

\* the name the listing of .TagNodeMeta shows for the sidecar decodes to the
\* label path as well
C12_ListedNameDecodes ==
    Encoded => ExtractTagPathFromFilename(FirstComponent(last.arg2)) = last.arg

\* the case of C12 is reached: a path of two segments with underscores was
\* encoded and decoded back to itself
C12_UnderscoresDecoded ==
    /\ Decoded
    /\ last.arg = << "_", "/", "a", "_" >>
    /\ last.arg2 = last.arg

\* the case C12 fails on: getMetadataFilePath threw on a valid label path,
\* which has a character outside Latin-1
C12_NoFilename ==
    /\ last.op = "getMetadataFilePath" /\ last.ret = "throws"
    /\ HasWide(last.arg)

(***************************************************************************)
(* The metadata of a tag folder                                            *)
(***************************************************************************)

\* the step is a call of updateMeta on a node that returns true
UpdatesMeta == last'.op = "updateMeta" /\ last'.ret = "true"

\* the record of the sidecar of the node of the call, before and after it
StoredBefore == ReadMeta(meta, nodes[last'.target].path)

StoredAfter == ReadMeta(meta', nodes[last'.target].path)

\* the merge the rules dictate for one key: absent, the incoming value; an
\* existing list, the concatenation without duplicates; two texts, the incoming
\* one appended as a new line unless it is a substring already; an existing text
\* and an incoming list, the text as a one-element list merged with the list
ReferenceMerge(record, key, incoming) ==
    IF key \notin Keys(record) THEN incoming
    ELSE IF ValueOf(record, key).list
    THEN ListValue(Deduped(ValueOf(record, key).items \o incoming.items))
    ELSE IF incoming.list
    THEN ListValue(Deduped(<< ValueOf(record, key).items[1] >> \o incoming.items))
    ELSE IF Includes(ValueOf(record, key).items[1], incoming.items[1])
    THEN ValueOf(record, key)
    ELSE TextValue(ValueOf(record, key).items[1] \o << Newline >> \o incoming.items[1])

\* the record is the reference merge of the payload into the record before:
\* the keys of the payload merged, the other keys as they were
MergedAsSpecified(after, before, payload) ==
    /\ \A i \in 1..Len(payload) :
            /\ payload[i].key \in Keys(after)
            /\ ValueOf(after, payload[i].key)
                    = ReferenceMerge(before, payload[i].key, payload[i].val)
    /\ \A k \in Keys(before) \ Keys(payload) :
            k \in Keys(after) /\ ValueOf(after, k) = ValueOf(before, k)

\* C13: for every key of the payload the value stored after updateMeta is the
\* reference merge of the incoming value into the value stored before (absent:
\* the incoming value; list: concatenated and deduplicated; two texts: appended
\* as a new line unless already a substring; text and incoming list: promoted
\* to a one-element list and merged), and the other keys keep their values
C13_StoredIsReferenceMerge ==
    [][UpdatesMeta =>
        \E before \in { StoredBefore }, after \in { StoredAfter } :
            MergedAsSpecified(after, before, last'.arg)]_vars

\* what holds of C13 in the code: the record updateMeta has in memory after
\* its merge loop is the reference merge
C13_MergeLoopAsSpecified ==
    [][UpdatesMeta =>
        \E before \in { StoredBefore } :
            \E merged \in { Merged(before, last'.arg, 1) } :
                MergedAsSpecified(merged, before, last'.arg)]_vars

\* the key is one that parseFrontmatter reads back
WritableKey(k) == KeyLen(k \o << ":" >>) = Len(k)

\* the text is one that serializeFrontmatter and parseFrontmatter preserve: on
\* one line without a double quote, or on several lines none of which starts
\* with a space
WritableText(s) ==
    IF Includes(s, << Newline >>)
    THEN \A k \in 1..Len(LinesOf(s)) : ~IsBlockLine(LinesOf(s)[k])
    ELSE ~Includes(s, << "dquote" >>)

\* the item is one they preserve: on one line, trimmed, no double quote at an end
WritableItem(s) == s = Trim(s) /\ s = Unquoted(s) /\ ~Includes(s, << Newline >>)

\* every key and value of the record is one they preserve
Writable(record) ==
    \A i \in 1..Len(record) :
        /\ WritableKey(record[i].key)
        /\ IF record[i].val.list
           THEN \A j \in 1..Len(record[i].val.items) : WritableItem(record[i].val.items[j])
           ELSE WritableText(record[i].val.items[1])

\* what holds of C13 in the code: a merged record of writable keys and values
\* is stored as it is
C13_WritableRecordStored ==
    [][UpdatesMeta =>
        \E merged \in { Merged(StoredBefore, last'.arg, 1) } :
            Writable(merged) => StoredAfter = merged]_vars

\* the node the last call was on
Target == nodes[last.target]

\* the record of the sidecar of the node the last call was on
Stored == ReadMeta(meta, Target.path)

\* the case of C13 is reached: a list was stored, updateMeta merged a list
\* into it, and the stored list is the concatenation without duplicates
C13_ListsMerged ==
    /\ last.op = "updateMeta" /\ last.ret = "true"
    /\ last.prev.op = "updateMeta" /\ last.prev.target = last.target
    /\ last.prev.arg = Entry(<< "t", "a", "g", "s" >>, ListValue(<< << "p" >>, << "q" >> >>))
    /\ last.arg = Entry(<< "t", "a", "g", "s" >>, ListValue(<< << "q" >>, << "r" >>, << "q" >> >>))
    /\ ValueOf(Stored, << "t", "a", "g", "s" >>) = ListValue(<< << "p" >>, << "q" >>, << "r" >> >>)

\* the case C13 fails on: the description of a fresh sidecar, a text of two
\* lines, was merged with the list [z], and the stored value is not the list
\* of the description and z
C13_PromotedTextLost ==
    /\ last.op = "updateMeta" /\ last.ret = "true" /\ ops = 1
    /\ last.arg = Entry(DescriptionKey, ListValue(<< << "z" >> >>))
    /\ << "z" >> \notin Range(ValueOf(Stored, DescriptionKey).items)

\* the stored value holds the incoming one: the text as a part of the stored
\* text or as an item of the stored list, every item as an item of the stored list
Holding(stored, incoming) ==
    IF stored.list THEN Range(incoming.items) \subseteq Range(stored.items)
    ELSE ~incoming.list /\ Includes(stored.items[1], incoming.items[1])

\* the record holds every key and value of the payload
HoldingAll(record, payload) ==
    \A i \in 1..Len(payload) :
        /\ payload[i].key \in Keys(record)
        /\ Holding(ValueOf(record, payload[i].key), payload[i].val)

\* C14: updateMeta(R) on a freshly created node followed by readMeta() returns
\* a record with every key of R, each text of R contained in the stored text
\* and each list item of R present in the stored list
C14_MetadataRoundTrip ==
    [][(ops = 0 /\ UpdatesMeta) =>
        \E after \in { StoredAfter } : HoldingAll(after, last'.arg)]_vars

\* what holds of C14 in the code: the round trip, when the merged record has
\* writable keys and values only
C14_WritableRoundTrip ==
    [][(ops = 0 /\ UpdatesMeta) =>
        \E merged \in { Merged(StoredBefore, last'.arg, 1) }, after \in { StoredAfter } :
            Writable(merged) => HoldingAll(after, last'.arg)]_vars

\* the case of C14 is reached: readMeta after updateMeta({tags: [p, q]}) on a
\* fresh node returned a record with the list
C14_ListReadBack ==
    /\ last.op = "readMeta" /\ last.target \in DOMAIN nodes /\ ops = 2
    /\ last.prev.op = "updateMeta" /\ last.prev.target = last.target
    /\ last.prev.arg = Entry(<< "t", "a", "g", "s" >>, ListValue(<< << "p" >>, << "q" >> >>))
    /\ HoldingAll(last.arg2, last.prev.arg)

\* the case C14 fails on: readMeta after updateMeta({note: s"h}) on a fresh
\* node returned a record whose note does not contain s"h
C14_QuotedTextLost ==
    /\ last.op = "readMeta" /\ last.target \in DOMAIN nodes /\ ops = 2
    /\ last.prev.op = "updateMeta" /\ last.prev.target = last.target
    /\ last.prev.arg = Entry(<< "n", "o", "t", "e" >>, TextValue(<< "s", "dquote", "h" >>))
    /\ << "n", "o", "t", "e" >> \in Keys(last.arg2)
    /\ ~Includes(ValueOf(last.arg2, << "n", "o", "t", "e" >>).items[1], << "s", "dquote", "h" >>)

\* the number of places of the text where the part occurs
Occurrences(s, sub) ==
    Cardinality({ i \in 0..(Len(s) - Len(sub)) : SubSeq(s, i + 1, i + Len(sub)) = sub })

\* updateMeta({description: "x"})
DescriptionX == Entry(DescriptionKey, TextValue(<< "x" >>))

\* the step is the second of two calls updateMeta({description: "x"}) on a
\* freshly created node
SecondDescriptionX ==
    /\ ops = 1
    /\ last.op = "updateMeta" /\ last.ret = "true" /\ last.arg = DescriptionX
    /\ UpdatesMeta /\ last'.arg = DescriptionX /\ last'.target = last.target

\* C15: on a freshly created node, updateMeta({description: "x"}) called twice
\* yields a description that contains x exactly once, and the second call
\* leaves the sidecar record equal to the record after the first call
C15_AppendedOnce ==
    [][SecondDescriptionX =>
        \E before \in { StoredBefore }, after \in { StoredAfter } :
            /\ Occurrences(ValueOf(after, DescriptionKey).items[1], << "x" >>) = 1
            /\ after = before]_vars

\* what holds of C15 in the code: the second call leaves the description as
\* the first call left it, with x in it
C15_DescriptionSettled ==
    [][SecondDescriptionX =>
        \E before \in { StoredBefore }, after \in { StoredAfter } :
            /\ ValueOf(after, DescriptionKey) = ValueOf(before, DescriptionKey)
            /\ Includes(ValueOf(after, DescriptionKey).items[1], << "x" >>)]_vars

\* what holds of C15 in the code: the claim, on a node whose name has neither
\* x nor a double quote in it
C15_AppendedOnceOnPlainName ==
    [][(SecondDescriptionX /\ nodes[last.target].name = << "a" >>) =>
        \E before \in { StoredBefore }, after \in { StoredAfter } :
            /\ Occurrences(ValueOf(after, DescriptionKey).items[1], << "x" >>) = 1
            /\ after = before]_vars

\* two calls updateMeta({description: "x"}) were made on a fresh sidecar
DescriptionXTwice ==
    /\ last.op = "updateMeta" /\ last.ret = "true" /\ ops = 2
    /\ last.arg = DescriptionX
    /\ last.prev.op = "updateMeta" /\ last.prev.target = last.target
    /\ last.prev.arg = DescriptionX

\* the case of C15 is reached: after the two calls on the node a the
\* description ends with the line x and contains x once
C15_AppendedOnceReached ==
    /\ DescriptionXTwice
    /\ Target.name = << "a" >>
    /\ Occurrences(ValueOf(Stored, DescriptionKey).items[1], << "x" >>) = 1

\* the case C15 fails on: after the two calls on the node q" the name of the
\* record is not the name the first call left: it has two backslashes in a row
C15_RecordDrifted ==
    /\ DescriptionXTwice
    /\ Target.name = << "q", "dquote" >>
    /\ Includes(ValueOf(Stored, << "n", "a", "m", "e" >>).items[1], << "backslash", "backslash" >>)

(***************************************************************************)
(* Looking a node up by its label path                                     *)
(***************************************************************************)

\* the child of n stored under that name, null when n has none
ChildNamed(t, n, seg) ==
    IF \E k \in 1..Len(t.nodes[n].children) : t.nodes[n].children[k].key = seg
    THEN t.nodes[n].children[
            CHOOSE k \in 1..Len(t.nodes[n].children) : t.nodes[n].children[k].key = seg].node
    ELSE NULL

\* the walk down the segments from a node, null as soon as one is missing
RECURSIVE WalkFrom(_, _, _, _)
WalkFrom(t, n, segs, i) ==
    IF n = NULL THEN NULL
    ELSE IF i > Len(segs) THEN n
    ELSE WalkFrom(t, ChildNamed(t, n, segs[i]), segs, i + 1)

\* the node a label path leads to: the root proxy for a path that is empty,
\* blank or without a segment, else the walk from the top-level node named by
\* the first segment
NodeAtPath(t, P) ==
    IF Trim(P) = Empty \/ TagSegments(P) = Empty THEN ROOT_PROXY
    ELSE WalkFrom(t, FindRootTag(t, TagSegments(P)[1]), TagSegments(P), 2)

\* the label paths getNode is asked for: those of the calls, the empty and
\* the blank path, and the path of the child that the name constructor/x gives
\* to the node a
QueryPaths ==
    PathInputs \cup { Empty, << " " >>, << "a", "/" >> \o Constructor \o << "/", "x" >> }

\* the node that a successful addChildNode has just added
AddedChild ==
    IF last'.target = ROOT_PROXY THEN rootTags'[Len(rootTags')]
    ELSE nodes'[last'.target].children[Len(nodes'[last'.target].children)].node

AddsChild == last'.op = "addChildNode" /\ last'.ret = "true" /\ ops' = ops + 1

\* C16: getNode of an empty path returns the root proxy; getNode of a
\* non-empty path returns the node reached by walking its segments from the
\* top-level node of the first segment, null as soon as a segment is missing;
\* and every node built by recompute or by addChildNode is returned by getNode
\* of its path
C16_GetNodeFindsBuilt ==
    /\ [](\A P \in QueryPaths : GetNode(Tree, P) = NodeAtPath(Tree, P))
    /\ Addressable(Tree)
    /\ [][/\ last'.op = "recomputeTree" => Addressable(TreeNext)
          /\ AddsChild => GetNode(TreeNext, nodes'[AddedChild].path) = AddedChild]_vars

\* what holds of C16 in the code: the lookup is the walk for paths without a
\* segment that Object.prototype has, recompute builds nodes that are found at
\* their path, and so does addChildNode for a name without a slash on a node
\* that is itself found at its path
C16_FoundUnderPlainNames ==
    /\ [](\A P \in QueryPaths :
            (\A k \in DOMAIN TagSegments(P) : TagSegments(P)[k] \notin ObjectPrototypeKeys)
                => GetNode(Tree, P) = NodeAtPath(Tree, P))
    /\ Addressable(Tree)
    /\ [][/\ last'.op = "recomputeTree" => Addressable(TreeNext)
          /\ (/\ AddsChild /\ Len(Split(Trim(last'.arg))) = 1
              /\ \/ last'.target = ROOT_PROXY
                 \/ GetNode(Tree, nodes[last'.target].path) = last'.target)
                => GetNode(TreeNext, nodes'[AddedChild].path) = AddedChild]_vars

\* a case C16 holds on: addChildNode has added a child under a plain name to
\* a node, and getNode of the child's path returns the child
C16_AddedChildFound ==
    /\ last.op = "addChildNode" /\ last.ret = "true" /\ last.target # ROOT_PROXY
    /\ last.target \in DOMAIN nodes
    /\ \E k \in 1..Len(nodes[last.target].children) :
            /\ nodes[last.target].children[k].key = Trim(last.arg)
            /\ GetNode(Tree, nodes[nodes[last.target].children[k].node].path)
                    = nodes[last.target].children[k].node

\* a case C16 fails on: addChildNode has added a child under a name holding a
\* slash, and getNode of the child's path does not return the child
C16_AddedChildNotFound ==
    /\ last.op = "addChildNode" /\ last.ret = "true"
    /\ last.target \in DOMAIN nodes
    /\ \E k \in 1..Len(nodes[last.target].children) :
            /\ nodes[last.target].children[k].key = Trim(last.arg)
            /\ Len(Split(nodes[last.target].children[k].key)) > 1
            /\ GetNode(Tree, nodes[nodes[last.target].children[k].node].path)
                    # nodes[last.target].children[k].node

\* another case C16 fails on: a segment that Object.prototype has is missing
\* from the node a, and getNode of the path does not return null
C16_MissingSegmentNotNull ==
    /\ FindRootTag(Tree, << "a" >>) # NULL
    /\ ChildNamed(Tree, FindRootTag(Tree, << "a" >>), Constructor) = NULL
    /\ GetNode(Tree, << "a", "/" >> \o Constructor) # NULL
    /\ ops > 0

(***************************************************************************)
(* The excluded folders                                                    *)
(***************************************************************************)

\* the non-empty lines of a text: its longest stretches without a line break
NonEmptyLines(text) ==
    { SubSeq(text, i, j) : i \in 1..Len(text), j \in 1..Len(text) } \cap
    { SubSeq(text, i, j) : <<i, j>> \in
        { ij \in (1..Len(text)) \X (1..Len(text)) :
            /\ ij[1] <= ij[2]
            /\ \A k \in ij[1]..ij[2] : text[k] # Newline
            /\ ij[1] = 1 \/ text[ij[1] - 1] = Newline
            /\ ij[2] = Len(text) \/ text[ij[2] + 1] = Newline } }

\* the document lies in an excluded folder or below one
UnderExcluded(i) == \E k \in 1..Len(vault[i].folders) : vault[i].folders[k] \in excludedFolders

\* every document the tree holds, under a node or unlabeled
AllDocs(t) ==
    Docs(t.untaggedFiles) \cup UNION { Docs(t.nodes[n].files) : n \in DOMAIN t.nodes }

\* the label paths of the document have non-empty segments, none of them a
\* name that Object.prototype has
PlainLabels(i) ==
    \A P \in LabelPaths(i) :
        WellFormed(P) /\ \A k \in DOMAIN Split(P) : Split(P)[k] \notin ObjectPrototypeKeys

\* the scan has processed the document: without a label it is among the
\* unlabeled documents, with labels the node of each of its label paths exists
Scanned(i) ==
    IF LabelPaths(i) = {} THEN Doc(i) \in Docs(untaggedFiles)
    ELSE PlainLabels(i) => \A P \in LabelPaths(i) : GetNode(Tree, P) \in DOMAIN nodes

ChildrenIds(t, target) ==
    IF target = ROOT_PROXY THEN t.rootTags ELSE ChildrenOf(t.nodes, target)

\* the collection addChildNode adds to: the dictionary of the node, or rootTags
ChildrenHeld(t, target) ==
    IF target = ROOT_PROXY THEN t.rootTags ELSE t.nodes[target].children

\* the parent a child of the target has: the node, none for the root proxy
ParentFor(target) == IF target = ROOT_PROXY THEN NULL ELSE target

\* the step is a call of addChildNode
AddChildCalled == last'.op = "addChildNode" /\ ops' = ops + 1

\* before the call the target had a child of that name
HadChildNamed(target, name) ==
    \E k \in 1..Len(ChildrenIds(Tree, target)) :
        nodes[ChildrenIds(Tree, target)[k]].name = Trim(name)

\* the call has added exactly one child, of that name and with the target as
\* its parent, and has left the other children as they were
OneChildAdded(target, name, before, after) ==
    /\ Len(after) = Len(before) + 1
    /\ SubSeq(ChildrenHeld(TreeNext, target), 1, Len(before)) = ChildrenHeld(Tree, target)
    /\ \A k \in 1..Len(before) : after[k] = before[k] /\ nodes'[before[k]] = nodes[before[k]]
    /\ after[Len(after)] \notin DOMAIN nodes
    /\ nodes'[after[Len(after)]].name = Trim(name)
    /\ nodes'[after[Len(after)]].parent = ParentFor(target)
    /\ nodes'[after[Len(after)]].children = Empty

\* the contract of one call of addChildNode(name) on a target
AddChildContract(target, name, ret) ==
    /\ ret \in { "true", "false" }
    /\ (Trim(name) = Empty \/ HadChildNamed(target, name)) => ret = "false"
    /\ ret = "false" => ChildrenHeld(TreeNext, target) = ChildrenHeld(Tree, target)
    /\ ret = "true" =>
            OneChildAdded(target, name, ChildrenIds(Tree, target), ChildrenIds(TreeNext, target))

\* C18: addChildNode(name) returns false and leaves the children of the node
\* unchanged when name is empty or blank or when a child of that name exists;
\* it returns true only when no child of that name existed, and then exactly
\* one child is added, with the node as its parent, the other children
\* unchanged
C18_AddChildContract ==
    [][AddChildCalled => AddChildContract(last'.target, last'.arg, last'.ret)]_vars

\* what holds of C18 in the code: the contract, for calls on the root proxy
\* and on nodes whose children are stored under their names
C18_ContractWhenKeysAreNames ==
    [][(AddChildCalled /\ KeysAreNames(Tree))
            => AddChildContract(last'.target, last'.arg, last'.ret)]_vars

\* a case C18 holds on: the second of two calls of addChildNode has added a
\* child to a node whose children are stored under their names
C18_ChildAdded ==
    /\ last.op = "addChildNode" /\ last.ret = "true" /\ last.target \in DOMAIN nodes
    /\ last.prev.op = "addChildNode"
    /\ nodes[nodes[last.target].children[Len(nodes[last.target].children)].node].parent
            = last.target
    /\ KeysAreNames(Tree)

\* a case C18 fails on: addChildNode returned true for the name that a child
\* of the node, renamed by the call before, already had
C18_SecondChildOfThatName ==
    /\ last.op = "addChildNode" /\ last.ret = "true" /\ last.target \in DOMAIN nodes
    /\ last.prev.op = "renameNode"
    /\ \E i, j \in 1..Len(nodes[last.target].children) :
            /\ i # j
            /\ nodes[nodes[last.target].children[i].node].name = Trim(last.arg)
            /\ nodes[nodes[last.target].children[j].node].name = Trim(last.arg)

(***************************************************************************)
(* The contract of createNewFile                                           *)
(***************************************************************************)

\* the documents the target of a call holds: those of the node, or the
\* unlabeled documents for the root proxy
FilesHeld(t, target) ==
    IF target = ROOT_PROXY THEN t.untaggedFiles ELSE t.nodes[target].files

\* the label path of the target: the path of the node, '' for the root proxy
PathOfTarget(t, target) == IF target = ROOT_PROXY THEN Empty ELSE t.nodes[target].path

\* the storage path is that of a document of the vault
Resolves(storagePath) == \E i \in 1..Len(vault) : vault[i].path = storagePath

\* the target holds a document of that name
HoldsNamed(files, name) == \E k \in 1..Len(files) : files[k].name = name

\* the step is a call of createNewFile
CreateNewFileCalled == last'.op = "createNewFile" /\ ops' = ops + 1

\* the call is one the contract refuses: an input is empty or blank, a
\* document of that name is held, or the storage path resolves to no document
Refusable(files, name, storagePath) ==
    \/ Trim(name) = Empty \/ Trim(storagePath) = Empty
    \/ HoldsNamed(files, Trim(name))
    \/ ~Resolves(Trim(storagePath))

\* the contract of one call of createNewFile(name, storagePath) on a target
CreateNewFileContract(target, name, storagePath, ret, before, after) ==
    /\ ret \in { "true", "false" }
    /\ Refusable(before, name, storagePath) => ret = "false"
    /\ ret = "false" => after = before
    /\ ret = "true" =>
            /\ Len(after) = Len(before) + 1
            /\ SubSeq(after, 1, Len(before)) = before
            /\ after[Len(after)].name = Trim(name)
            /\ after[Len(after)].path = Trim(storagePath)
            /\ after[Len(after)].tagpath = PathOfTarget(Tree, target)

\* C19: createNewFile(name, storagePath) returns false without throwing and
\* leaves the documents of the node unchanged when an input is empty, when
\* the node already holds a document of that name, or when storagePath is not
\* the path of a document; on success exactly one FileLeaf is added, and its
\* tagpath is the path of the node
C19_CreateNewFileContract ==
    [][CreateNewFileCalled =>
        CreateNewFileContract(last'.target, last'.arg, last'.arg2, last'.ret,
                              FilesHeld(Tree, last'.target),
                              FilesHeld(TreeNext, last'.target))]_vars

\* what holds of C19 in the code: the contract, for names given without
\* blanks around them
C19_ContractOnTrimmedNames ==
    [][(CreateNewFileCalled /\ Trim(last'.arg) = last'.arg) =>
        CreateNewFileContract(last'.target, last'.arg, last'.arg2, last'.ret,
                              FilesHeld(Tree, last'.target),
                              FilesHeld(TreeNext, last'.target))]_vars

\* a case C19 holds on: createNewFile has added a document to a node, with
\* the path of the node as its tagpath
C19_DocumentAdded ==
    /\ last.op = "createNewFile" /\ last.ret = "true" /\ last.target \in DOMAIN nodes
    /\ last.arg = Trim(last.arg)
    /\ nodes[last.target].files[Len(nodes[last.target].files)] =
            FileLeaf(last.arg, last.arg2, nodes[last.target].path)
    /\ ~HoldsNamed(SubSeq(nodes[last.target].files, 1, Len(nodes[last.target].files) - 1),
                   last.arg)

\* a case C19 fails on: createNewFile returned true for a name that, without
\* the blanks around it, is the name of a document the node already held
C19_AddedUnderHeldName ==
    /\ last.op = "createNewFile" /\ last.ret = "true" /\ last.target \in DOMAIN nodes
    /\ last.arg # Trim(last.arg)
    /\ HoldsNamed(SubSeq(nodes[last.target].files, 1, Len(nodes[last.target].files) - 1),
                  Trim(last.arg))
    /\ nodes[last.target].files[Len(nodes[last.target].files)].name = Trim(last.arg)

(***************************************************************************)
(* Looking up a child or a document that is not there                      *)
(***************************************************************************)

\* the names getChild and getFile are asked for
LookupNames == ChildNameInputs \cup NameInputs \cup FileNames \cup FileNameInputs

\* a child of the node has that name
HasChildNamed(t, n, name) ==
    \E k \in 1..Len(t.nodes[n].children) : t.nodes[t.nodes[n].children[k].node].name = name

\* what getChild may return: nothing, or a node stored among the children of
\* n under that name
ChildOrNull(t, n, name, got) ==
    \/ got = NULL
    \/ \E k \in 1..Len(t.nodes[n].children) :
            t.nodes[n].children[k].key = name /\ t.nodes[n].children[k].node = got

\* the lookups of one name on one node miss as they should
MissesAt(t, n, name) ==
    /\ ~HasChildNamed(t, n, name) => GetChild(t.nodes, n, name) = NULL
    /\ ChildOrNull(t, n, name, GetChild(t.nodes, n, name))
    /\ ~HoldsNamed(t.nodes[n].files, name) => FileIndex(t.nodes[n].files, name) = 0

\* C20: for every name that is not the name of a current child (of a held
\* document), getChild (getFile) returns null and does not throw, and
\* getChild returns nothing but a node that was added as a child under that
\* name and not removed since
C20_LookupMiss == \A n \in DOMAIN nodes : \A name \in LookupNames : MissesAt(Tree, n, name)

\* what holds of C20 in the code: the lookups miss as they should for every
\* name that Object.prototype does not have, on a tree whose children are
\* stored under their names
C20_MissOnOwnNames ==
    KeysAreNames(Tree) =>
        \A n \in DOMAIN nodes : \A name \in LookupNames \ ObjectPrototypeKeys :
            MissesAt(Tree, n, name)

\* a case C20 holds on: the child b was removed from a node, and getChild of
\* b on that node returns null
C20_RemovedChildMissed ==
    /\ last.op = "removeChildNode" /\ last.ret = "true" /\ last.target \in DOMAIN nodes
    /\ GetChild(nodes, last.target, last.arg) = NULL

\* a case C20 fails on: removeChildNode found no child named constructor to
\* remove, and getChild of that name on the node does not return null
C20_PrototypeMemberReturned ==
    /\ last.op = "removeChildNode" /\ last.ret = "false" /\ last.target \in DOMAIN nodes
    /\ last.arg = Constructor
    /\ ~HasChildNamed(Tree, last.target, Constructor)
    /\ GetChild(nodes, last.target, Constructor) # NULL

(***************************************************************************)
(* The sidecar of a node: created once, missing, kept by recompute         *)
(***************************************************************************)

\* the step is a call of createNewMeta on a node
CreatesMeta == last'.op = "createNewMeta" /\ ops' = ops + 1

\* the files of the .TagNodeMeta folder that are the sidecar of a node at the
\* path: those whose name decodes to the path
SidecarsAt(m, path) == { f \in DOMAIN m : ExtractTagPathFromFilename(f) = path }

\* every file of the folder is kept, with its content
KeepsFiles(before, after) == \A f \in DOMAIN before : f \in DOMAIN after /\ after[f] = before[f]

\* C21: createNewMeta writes a new sidecar if and only if none exists for the
\* path of the node; when one exists it leaves every file as it is; and a
\* recompute, which constructs the nodes again, leaves the content of every
\* sidecar, that stored by updateMeta included, as it is
C21_CreatedOnlyOnce ==
    [][/\ CreatesMeta =>
            \E path \in { nodes[last'.target].path } :
                IF SidecarsAt(meta, path) = {}
                THEN /\ last'.ret = "true"
                     /\ Cardinality(DOMAIN meta') = Cardinality(DOMAIN meta) + 1
                     /\ SidecarsAt(meta', path) # {}
                     /\ KeepsFiles(meta, meta')
                ELSE last'.ret = "false" /\ meta' = meta
       /\ last'.op = "recomputeTree" => KeepsFiles(meta, meta')]_vars

\* what holds of C21 in the code: no call of createNewMeta and no recompute
\* changes or removes a file that exists, and createNewMeta writes the sidecar
\* of a node that has none when the path of the node is of Latin-1 characters
C21_NeverOverwritten ==
    [][/\ CreatesMeta =>
            \E path \in { nodes[last'.target].path } :
                /\ KeepsFiles(meta, meta')
                /\ SidecarsAt(meta, path) # {} => (last'.ret = "false" /\ meta' = meta)
                /\ (SidecarsAt(meta, path) = {} /\ ~HasWide(path)) =>
                        (last'.ret = "true" /\ SidecarsAt(meta', path) # {})
       /\ last'.op = "recomputeTree" => KeepsFiles(meta, meta')]_vars

\* a case C21 holds on: updateMeta stored the tags p and q in the sidecar of a
\* node, the tree was recomputed, and the sidecar still holds them
C21_UpdateSurvivedRecompute ==
    /\ last.op = "recomputeTree" /\ last.prev.op = "updateMeta"
    /\ last.prev.arg = Entry(<< "t", "a", "g", "s" >>, ListValue(<< << "p" >>, << "q" >> >>))
    /\ last.prev.target \in DOMAIN nodes
    /\ \E n \in DOMAIN nodes :
            /\ << "t", "a", "g", "s" >> \in Keys(ReadMeta(meta, nodes[n].path))
            /\ ValueOf(ReadMeta(meta, nodes[n].path), << "t", "a", "g", "s" >>)
                    = ListValue(<< << "p" >>, << "q" >> >>)

\* a case C21 fails on: createNewMeta was called on a node that has no
\* sidecar, returned false and wrote nothing
C21_NothingWritten ==
    /\ last.op = "createNewMeta" /\ last.ret = "false"
    /\ SidecarsAt(meta, nodes[last.target].path) = {}
    /\ HasWide(nodes[last.target].path)

\* the step is a call of readMeta, updateMeta or deleteMeta on a node that has
\* no sidecar
CalledWithoutSidecar ==
    /\ last'.op \in { "readMeta", "updateMeta", "deleteMeta" } /\ ops' = ops + 1
    /\ last'.target \in DOMAIN nodes
    /\ SidecarsAt(meta, nodes[last'.target].path) = {}

\* C22: when the sidecar of the node is missing, readMeta returns the empty
\* record, updateMeta returns false without creating a sidecar and deleteMeta
\* returns false; none of them throws, and the sidecar files are left as
\* they are
C22_MissingSidecarDegrades ==
    [][CalledWithoutSidecar =>
        /\ meta' = meta
        /\ last'.op = "readMeta" => (last'.ret = "record" /\ last'.arg2 = <<>>)
        /\ last'.op = "updateMeta" => last'.ret = "false"
        /\ last'.op = "deleteMeta" => last'.ret = "false"]_vars

\* the case of C22 is reached: the sidecar of a node was deleted, updateMeta
\* on the node returned false, and the node still has no sidecar
C22_UpdateRefused ==
    /\ last.op = "updateMeta" /\ last.ret = "false"
    /\ last.prev.op = "deleteMeta" /\ last.prev.target = last.target
    /\ last.target \in DOMAIN nodes
    /\ SidecarsAt(meta, nodes[last.target].path) = {}
    /\ ~HasWide(nodes[last.target].path)

(***************************************************************************)
(* Serializing the tree                                                    *)
(***************************************************************************)

\* the step is a call of getSortedTree
SerializesTree == last'.op = "getSortedTree" /\ ops' = ops + 1

\* C23: a call of getSortedTree leaves rootTags, the name, the path, the
\* children and the files of every node, untaggedFiles, excludedFolders and the
\* sidecar files unchanged, and two consecutive calls with no other call in
\* between return structurally equal results
C23_SerializeIsPure ==
    [][SerializesTree =>
        /\ rootTags' = rootTags
        /\ nodes' = nodes
        /\ untaggedFiles' = untaggedFiles
        /\ excludedFolders' = excludedFolders
        /\ meta' = meta
        /\ last.op = "getSortedTree" => StructurallyEqual(last'.arg2[1], last.arg2[1])]_vars

\* the case of C23 is reached: getSortedTree was called twice in a row on a
\* tree with top-level nodes, children and documents, and returned it
C23_SerializedTwice ==
    /\ last.op = "getSortedTree" /\ last.prev.op = "getSortedTree"
    /\ Len(last.arg2[1].rootTags) > 1
    /\ Len(last.arg2[1].rootTags[1].children) > 0
    /\ last.arg2[1].rootTags[1].totalFileCount > 0
    /\ Len(last.arg2[1].untaggedFiles) > 0
    /\ last.arg2[1] = SerializeTree(Tree)

(***************************************************************************)
(* The version counter                                                     *)
(***************************************************************************)

\* the step is a successful recompute: the tree is built, or recomputed
Recomputed ==
    \/ ~plugin.treeRoot /\ plugin'.treeRoot
    \/ ops' = ops + 1 /\ last'.op = "recomputeTree"

Mounted(view) == view.open /\ view.component

\* the view holds the version of the tree
Fresh(view) == view.currentTreeVersion = GetTreeVersion

\* C28: after broadcastTreeUpdate every open, mounted view that is shown holds
\* the version of the tree; an open, mounted view that becomes the active leaf
\* holds the version of the tree afterwards, whatever it held before; and no
\* view ever holds a version greater than that of the tree
C28_ViewFreshness ==
    [][/\ last'.op = "broadcastTreeUpdate" =>
            \A v \in ViewIds :
                Mounted(views[v]) /\ views[v].shown =>
                    views'[v].currentTreeVersion = GetTreeVersion'
       /\ last'.op = "onViewBecameActive" =>
            \E v \in { last'.target } :
                Mounted(views[v]) => views'[v].currentTreeVersion = GetTreeVersion'
       /\ \A v \in ViewIds : views'[v].currentTreeVersion <= GetTreeVersion']_vars

\* the case of C28 is reached: a broadcast has just updated a shown view to
\* the version of a recomputed tree, while another open view, hidden, still
\* holds an older version
C28_BroadcastPastHiddenView ==
    /\ last.op = "broadcastTreeUpdate" /\ last.prev.op = "recomputeTree"
    /\ \E v, w \in ViewIds :
            /\ Mounted(views[v]) /\ views[v].shown /\ Fresh(views[v])
            /\ Mounted(views[w]) /\ ~views[w].shown /\ ~Fresh(views[w])

\* the case of C28 is reached: a view that held an older version has just
\* become the active leaf after a recompute, and holds the version of the tree
C28_RefreshedOnActivation ==
    /\ last.op = "onViewBecameActive" /\ last.prev.op = "recomputeTree"
    /\ Mounted(views[last.target]) /\ Fresh(views[last.target])
    /\ GetTreeVersion > RecomputedVersion(NoVersion)

(***************************************************************************)
(* The path of a node at its creation                                      *)
(***************************************************************************)

\* the node is held where its parent field says: in rootTags when it has no
\* parent, else in the children of its parent under its own name
Registered(t, n) ==
    IF t.nodes[n].parent = NULL THEN \E k \in 1..Len(t.rootTags) : t.rootTags[k] = n
    ELSE \E k \in 1..Len(t.nodes[t.nodes[n].parent].children) :
            /\ t.nodes[t.nodes[n].parent].children[k].key = t.nodes[n].name
            /\ t.nodes[t.nodes[n].parent].children[k].node = n

\* the path of the node follows from its parent and its name, and the node is
\* registered under its name
CreatedConsistent(t, n) == PathOk(t, n) /\ Registered(t, n)

\* the step is a recompute, which clears the tree and walks every node anew
Rebuilds == last'.op = "recomputeTree" /\ ops' = ops + 1

\* C25: right after its creation by addChildNode of a node or of the root
\* proxy, or by the walk of a recompute or of the constructor, a node has the
\* path parent.path + "/" + name, or its name when it is top-level, and is
\* registered with its parent under its name
C25_PathAtCreation ==
    /\ \A n \in DOMAIN nodes : CreatedConsistent(Tree, n)
    /\ [][/\ AddsChild => CreatedConsistent(TreeNext, AddedChild)
          /\ Rebuilds => \A n \in DOMAIN nodes' : CreatedConsistent(TreeNext, n)]_vars

\* the case of C25 is reached: a second child was added to a node that had
\* just been renamed, and its path follows the new path of its parent
C25_ChildOfRenamedNode ==
    /\ last.op = "addChildNode" /\ last.ret = "true"
    /\ last.prev.op = "renameNode" /\ last.prev.target = last.target
    /\ last.target \in DOMAIN nodes
    /\ \E c \in { nodes[last.target].children[Len(nodes[last.target].children)].node } :
            /\ nodes[c].name = Trim(last.arg)
            /\ nodes[c].path = nodes[last.target].path \o << "/" >> \o nodes[c].name
            /\ nodes[last.target].name = Trim(last.prev.arg)
            /\ Len(nodes[last.target].children) > 1

\* the case of C25 is reached: a recompute has walked a tree of nested nodes
\* after a top-level node was added
C25_WalkedAnew ==
    /\ last.op = "recomputeTree" /\ last.prev.op = "addChildNode"
    /\ last.prev.target = ROOT_PROXY
    /\ \E n \in DOMAIN nodes : nodes[n].parent # NULL
    /\ \E n \in DOMAIN nodes : nodes[n].name = Trim(last.prev.arg)

(***************************************************************************)
(* What renameNode changes, and what it leaves                             *)
(***************************************************************************)

\* the step is a call of renameNode
RenameCalled == last'.op = "renameNode" /\ ops' = ops + 1

\* the path renameNode gives the node: that of its parent, a slash, the name
RenamedPath(n, name) ==
    IF nodes[n].parent # NULL THEN nodes[nodes[n].parent].path \o << "/" >> \o name
    ELSE name

\* C26: a renameNode with a name that is not blank returns true, sets the name
\* of the node to the trimmed name and its path to the path of its parent, a
\* slash and the name (the name alone without a parent), and leaves alone the
\* children of the node and their paths, its documents and their labelPaths,
\* every other node, with them the key its parent holds it under, the top
\* level, the unlabeled documents and the sidecar files; with a blank name it
\* returns false and changes nothing
C26_RenameIsShallow ==
    [][RenameCalled =>
        \E n \in { last'.target } :
            IF Trim(last'.arg) = Empty THEN last'.ret = "false" /\ TreeNext = Tree
            ELSE /\ last'.ret = "true"
                 /\ nodes' = [ nodes EXCEPT ![n].name = Trim(last'.arg),
                                            ![n].path = RenamedPath(n, Trim(last'.arg)) ]
                 /\ rootTags' = rootTags
                 /\ untaggedFiles' = untaggedFiles
                 /\ excludedFolders' = excludedFolders
                 /\ meta' = meta]_vars

\* the case of C26 is reached: a nested node that holds documents and a child
\* was renamed; its parent still holds it under the old name, and the path of
\* its child and the labelPath of its documents still begin with the old path
C26_RenamedNestedNode ==
    /\ last.op = "renameNode" /\ last.ret = "true"
    /\ last.target \in DOMAIN nodes
    /\ \E n \in { last.target } :
            /\ nodes[n].parent # NULL
            /\ nodes[n].name = Trim(last.arg)
            /\ PathOk(Tree, n)
            /\ Len(nodes[n].children) > 0 /\ Len(nodes[n].files) > 0
            /\ ~Registered(Tree, n)
            /\ ~PathOk(Tree, nodes[n].children[1].node)
            /\ nodes[n].files[1].tagpath # nodes[n].path

\* the case of C26 is reached: renameNode was called with a blank name and
\* returned false
C26_BlankNameRefused ==
    /\ last.op = "renameNode" /\ last.ret = "false"
    /\ last.arg # Empty /\ Trim(last.arg) = Empty

(***************************************************************************)
(* The results of delChildNode                                             *)
(***************************************************************************)

\* the step is a call of delChildNode
DelCalled == last'.op = "delChildNode" /\ ops' = ops + 1

\* a node is at the label path
ExistsAt(t, P) == NodeAtPath(t, P) \in DOMAIN t.nodes

\* the label path has more than one segment, and a node is at the path made
\* of all its segments but the last
ParentExists(t, segs) ==
    /\ Len(segs) > 1
    /\ WalkFrom(t, FindRootTag(t, segs[1]), SubSeq(segs, 1, Len(segs) - 1), 2) # NULL

\* the node that was at the path is in the tree no more
RemovedAt(P) == ExistsAt(Tree, P) /\ NodeAtPath(Tree, P) \notin DOMAIN nodes'

\* C27: delChildNode(path) returns true if and only if a node was at the path
\* and is removed, and whenever no node is at the path it returns null and
\* leaves the tree as it is, whichever segment is the missing one
C27_ResultCodes ==
    [][DelCalled =>
        \E P \in { last'.arg } :
            /\ last'.ret = "true" <=> RemovedAt(P)
            /\ ~ExistsAt(Tree, P) => last'.ret = "null" /\ TreeNext = Tree]_vars

\* what holds instead: true if and only if the node was there and is removed;
\* with no node at the path the tree is left as it is, and the result is
\* false when all segments but the last name a node, null otherwise
C27_FalseWhenLastSegmentMissing ==
    [][DelCalled =>
        \E P \in { last'.arg } :
            /\ last'.ret = "true" <=> RemovedAt(P)
            /\ ~ExistsAt(Tree, P) =>
                    /\ TreeNext = Tree
                    /\ last'.ret = IF ParentExists(Tree, TagSegments(P)) THEN "false"
                                   ELSE "null"]_vars

\* the fault of C27 is reached: delChildNode was called with the path of a
\* child that its parent, which is there, does not have, and returned false
C27_FalseForNotFound ==
    /\ last.op = "delChildNode" /\ last.ret = "false"
    /\ ~ExistsAt(Tree, last.arg)
    /\ ParentExists(Tree, TagSegments(last.arg))

\* delChildNode returned null for a path whose first segment names no node,
\* the node having been deleted by the call before
C27_NullForFirstSegment ==
    /\ last.op = "delChildNode" /\ last.ret = "null"
    /\ last.prev.op = "delChildNode"
    /\ Len(TagSegments(last.arg)) = 2
    /\ FindRootTag(Tree, TagSegments(last.arg)[1]) = NULL

\* delChildNode returned null for a path whose middle segment names no node
C27_NullForMiddleSegment ==
    /\ last.op = "delChildNode" /\ last.ret = "null"
    /\ Len(TagSegments(last.arg)) = 3
    /\ FindRootTag(Tree, TagSegments(last.arg)[1]) # NULL

\* delChildNode returned true for a nested node, which is gone
C27_NestedNodeRemoved ==
    /\ last.op = "delChildNode" /\ last.ret = "true"
    /\ Len(TagSegments(last.arg)) = 2
    /\ ~ExistsAt(Tree, last.arg)

(***************************************************************************)
(* A deleted node and the next recompute                                   *)
(***************************************************************************)

\* the label path Q is P, or lies below P
AtOrBelow(Q, P) ==
    /\ Len(TagSegments(Q)) >= Len(TagSegments(P))
    /\ SubSeq(TagSegments(Q), 1, Len(TagSegments(P))) = TagSegments(P)

\* no document of the vault carries P or a label path below P
NoDocumentAtOrBelow(P) ==
    \A i \in 1..Len(vault) : \A Q \in LabelPaths(i) : ~AtOrBelow(Q, P)

\* the step is a recompute that follows a successful delChildNode
RecomputesAfterDelete ==
    /\ last.op = "delChildNode" /\ last.ret = "true"
    /\ Rebuilds

\* C29: when the recompute that follows a successful delChildNode(P) runs on
\* a vault in which no document carries P or a label path below P, getNode(P)
\* is null afterwards
C29_DeletionSurvivesRecompute ==
    [][(RecomputesAfterDelete /\ NoDocumentAtOrBelow(last.arg))
            => GetNode(TreeNext, last.arg) = NULL]_vars

\* what holds instead: a deleted nested node below which no sidecar is left
\* stays deleted
C29_NestedLeafStaysDeleted ==
    [][(/\ RecomputesAfterDelete /\ NoDocumentAtOrBelow(last.arg)
        /\ Len(TagSegments(last.arg)) > 1
        /\ \A f \in DOMAIN meta : ~AtOrBelow(ExtractTagPathFromFilename(f), last.arg))
            => GetNode(TreeNext, last.arg) = NULL]_vars

\* the fault of C29 is reached: a top-level node that no document carries was
\* deleted, and the recompute after it has built it again from its sidecar
C29_TopLevelResurrected ==
    /\ last.op = "recomputeTree"
    /\ last.prev.op = "delChildNode" /\ Len(TagSegments(last.prev.arg)) = 1
    /\ NoDocumentAtOrBelow(last.prev.arg)
    /\ GetNode(Tree, last.prev.arg) \in DOMAIN nodes
    /\ \A n \in DOMAIN nodes : nodes[n].files = Empty

\* the fault of C29 is reached: a nested node with a child was deleted, and
\* the recompute after it has built both again from the sidecar of the child
C29_NestedResurrected ==
    /\ last.op = "recomputeTree"
    /\ last.prev.op = "delChildNode" /\ Len(TagSegments(last.prev.arg)) = 2
    /\ NoDocumentAtOrBelow(last.prev.arg)
    /\ GetNode(Tree, last.prev.arg) \in DOMAIN nodes
    /\ Len(nodes[GetNode(Tree, last.prev.arg)].children) > 0

\* a nested node without children was deleted and the recompute after it has
\* not built it again
C29_NestedLeafGone ==
    /\ last.op = "recomputeTree"
    /\ last.prev.op = "delChildNode" /\ Len(TagSegments(last.prev.arg)) = 2
    /\ ExistsAt(Tree, << "a" >>) /\ ExistsAt(Tree, << "c" >>)
    /\ GetNode(Tree, last.prev.arg) = NULL
    /\ last.prev.arg = << "a", "/", "b" >>

(***************************************************************************)
(* The documents of the scan are held somewhere                            *)
(***************************************************************************)

\* the document is held in untaggedFiles or in the files of some node
HeldSomewhere(i) == Doc(i) \in AllDocs(Tree)

\* a document visited before this one has its name and carries the label path
TakenBefore(i, P) ==
    \E j \in Visited : j < i /\ vault[j].basename = vault[i].basename /\ P \in LabelPaths(j)

\* the document has no label path, or one that no document of its name visited
\* before it carries
SomeLabelFree(i) == LabelPaths(i) = {} \/ \E P \in LabelPaths(i) : ~TakenBefore(i, P)

\* C30: after a recompute every document the scan visits is held in
\* untaggedFiles or under at least one node, whatever the vault
C30_NoDocumentLost == AfterRecompute => \A i \in Visited : HeldSomewhere(i)

\* what holds instead: a visited document is held somewhere when its label
\* paths have no empty and no prototype-named segment and one of them is not
\* carried by an earlier document of the same name
C30_HeldWhenPlainAndFree ==
    AfterRecompute =>
        \A i \in Visited : (PlainLabels(i) /\ SomeLabelFree(i)) => HeldSomewhere(i)

\* the fault of C30 is reached: a visited document whose only label path is
\* "/" is held nowhere
C30_LostToEmptySegments ==
    /\ last.op = "recomputeTree"
    /\ \E i \in Visited :
            /\ LabelPaths(i) = { TagName(HashSlash) }
            /\ ~HeldSomewhere(i)

\* the fault of C30 is reached: two visited documents in different folders
\* have the same name and the same single label path, and the second is
\* held nowhere
C30_LostToSameName ==
    /\ last.op = "recomputeTree"
    /\ \E i, j \in Visited :
            /\ j < i
            /\ vault[j].basename = vault[i].basename /\ vault[j].folders # vault[i].folders
            /\ LabelPaths(i) = { TagName(HashAB) } /\ LabelPaths(j) = LabelPaths(i)
            /\ HeldSomewhere(j) /\ ~HeldSomewhere(i)

\* the fault of C30 is reached: a visited document whose only label path has
\* the segment "constructor" is held nowhere, while the others are held
C30_LostToPrototypeName ==
    /\ last.op = "recomputeTree"
    /\ \E i \in Visited :
            /\ LabelPaths(i) = { TagName(HashACtor) }
            /\ ~HeldSomewhere(i)
            /\ \A j \in Visited \ { i } : HeldSomewhere(j)

\* a visited document with plain label paths, one of them carried by an
\* earlier document of its name, is held under the other
C30_HeldUnderTheFreeLabel ==
    /\ last.op = "recomputeTree"
    /\ \E i \in Visited :
            /\ LabelPaths(i) = { TagName(HashAB), TagName(HashC) }
            /\ TakenBefore(i, TagName(HashAB)) /\ ~TakenBefore(i, TagName(HashC))
            /\ HeldUnder(i, TagName(HashC)) /\ ~HeldUnder(i, TagName(HashAB))

====
